---- MODULE Spec2Model ----
(***************************************************************************)
(* Model of the dvota election service (src/src/elections).  The database  *)
(* is one record `db` of tables; every service method of ElectionServices  *)
(* is an operator from (db, inputs, clock) to an outcome                   *)
(* [db, code, detail, ret]: the database after the call, the HTTP status   *)
(* (200 for a normal return), the error detail and the returned data.      *)
(* Every route handler is an action that applies its service method.       *)
(***************************************************************************)
EXTENDS Integers, Sequences, FiniteSets, TLC

VARIABLES
    now,    \* the clock read by datetime.now(timezone.utc)
    db,     \* the tables: users, elections, positions, candidates, votes, allowed
    txs,    \* vote transactions that passed their reads and wait for commit
    last    \* the last finished call: operation, caller, inputs, outcome

vars == <<now, db, txs, last>>

----------------------------------------------------------------------------
(* Bounds of the model *)

NumUsers == 3
MaxTime == 3
MaxElections == 1
MaxPositions == 2
MaxCandidates == 1
MaxEmails == 3
MaxInflight == 2
MaxOtps == 3

Users == 1..NumUsers
Times == 0..MaxTime

\* Optional[...] = None of the request schemas
NoTime == -1
NoName == "<unset>"
NoId == 0

ElectionNames == {"general", "senate"}
PositionNames == {"president", "treasurer"}

\* the e-mail address of a registered user, and one that no user has
EmailOf(u) == <<"mail", u>>
UnknownEmail == <<"mail", 0>>
Emails == {EmailOf(u) : u \in Users} \cup {UnknownEmail}

----------------------------------------------------------------------------
(* Tables *)

Drop(f, S) == [k \in DOMAIN f \ S |-> f[k]]

EmptyDb ==
    [ users      |-> [u \in Users |-> [email |-> EmailOf(u)]],
      elections  |-> <<>>,
      positions  |-> <<>>,
      candidates |-> <<>>,
      votes      |-> {},
      allowed    |-> {},
      nextId     |-> [election |-> 1, position |-> 1, candidate |-> 1] ]

Election(creator_id, election_name, start_time, stop_time) ==
    [ creator_id |-> creator_id, election_name |-> election_name,
      start_time |-> start_time, stop_time |-> stop_time ]

Position(election_id, position_name) ==
    [ election_id |-> election_id, position_name |-> position_name ]

Candidate(user_id, fullName, nickname, position_id) ==
    [ user_id |-> user_id, fullName |-> fullName, nickname |-> nickname,
      vote_count |-> 0, position_id |-> position_id,
      candidate_picture_id |-> NoName ]

Vote(user_id, position_id, candidate_id) ==
    [ user_id |-> user_id, position_id |-> position_id,
      candidate_id |-> candidate_id ]

AllowedVoter(user_id, election_id) ==
    [ user_id |-> user_id, election_id |-> election_id ]

\* the outcome of a call
Out(d, code, detail, ret) == [db |-> d, code |-> code, detail |-> detail, ret |-> ret]
Ok(d, ret) == Out(d, 200, "ok", ret)
Fail(d, code, detail) == Out(d, code, detail, NoId)

----------------------------------------------------------------------------
(* ON DELETE CASCADE and the ORM's delete cascades *)

PositionsOf(d, E) == {p \in DOMAIN d.positions : d.positions[p].election_id \in E}
CandidatesOf(d, P) == {c \in DOMAIN d.candidates : d.candidates[c].position_id \in P}

\* deleting the candidates C with their votes left behind
CascadeCandidates_keep_votes(d, C) ==
    [d EXCEPT !.candidates = Drop(@, C)]

\* deleting the candidates C: their votes go with them
CascadeCandidates(d, C) ==
    [d EXCEPT !.candidates = Drop(@, C),
              !.votes = {v \in @ : v.candidate_id \notin C}]

\* deleting the positions P: their candidates and votes go with them
CascadePositions(d, P) ==
    LET d1 == CascadeCandidates(d, CandidatesOf(d, P))
    IN  [d1 EXCEPT !.positions = Drop(@, P),
                   !.votes = {v \in @ : v.position_id \notin P}]

\* deleting the elections E: positions, candidates, votes, whitelist rows
CascadeElections(d, E) ==
    LET d1 == CascadePositions(d, PositionsOf(d, E))
    IN  [d1 EXCEPT !.elections = Drop(@, E),
                   !.allowed = {a \in @ : a.election_id \notin E}]

----------------------------------------------------------------------------
(* ElectionServices *)

get_user_by_email(d, user_email) ==
    LET found == {u \in DOMAIN d.users : d.users[u].email = user_email}
    IN  IF found = {} THEN NoId ELSE CHOOSE u \in found : TRUE

\* code 200 when creator_id created election_id, else the error raised
verify_creator(d, creator_id, election_id) ==
    IF election_id \notin DOMAIN d.elections
    THEN Fail(d, 404, "election does not exist")
    ELSE IF d.elections[election_id].creator_id # creator_id
    THEN Fail(d, 403, "you are not authorized to make changes to this election")
    ELSE Ok(d, NoId)

NameTaken(d, creator_id, election_name, except) ==
    \E e \in DOMAIN d.elections \ {except} :
        /\ d.elections[e].creator_id = creator_id
        /\ d.elections[e].election_name = election_name

\* create_election that also enrols the creator as a voter
create_election_self_whitelist(d, election_details, creator_id) ==
    IF election_details.stop_time < election_details.start_time
    THEN Fail(d, 400, "stopTime must be greater than startTime")
    ELSE IF NameTaken(d, creator_id, election_details.election_name, NoId)
    THEN Fail(d, 409, "You have already created an election with this name.")
    ELSE LET id == d.nextId.election
         IN  Ok([d EXCEPT !.elections = (id :> Election(creator_id,
                                                election_details.election_name,
                                                election_details.start_time,
                                                election_details.stop_time)) @@ @,
                          !.allowed = @ \cup {AllowedVoter(creator_id, id)},
                          !.nextId.election = id + 1], id)

create_election(d, election_details, creator_id) ==
    IF election_details.stop_time < election_details.start_time
    THEN Fail(d, 400, "stopTime must be greater than startTime")
    ELSE IF NameTaken(d, creator_id, election_details.election_name, NoId)
    THEN Fail(d, 409, "You have already created an election with this name.")
    ELSE LET id == d.nextId.election
         IN  Ok([d EXCEPT !.elections = (id :> Election(creator_id,
                                                election_details.election_name,
                                                election_details.start_time,
                                                election_details.stop_time)) @@ @,
                          !.nextId.election = id + 1], id)

\* the update loop: None and blank strings are skipped
Supplied(value) == value # NoName /\ value # ""

\* update_election_details without the lock on the start_time of a started
\* election
update_election_details_no_lock(d, inp, creator_id, datetime_now) ==
    LET auth == verify_creator(d, creator_id, inp.election_id) IN
    IF auth.code # 200 THEN auth ELSE
    LET election  == d.elections[inp.election_id]
        new_start == IF inp.start_time # NoTime THEN inp.start_time ELSE election.start_time
        new_stop  == IF inp.stop_time # NoTime THEN inp.stop_time ELSE election.stop_time
        new_name  == IF Supplied(inp.election_name) THEN inp.election_name
                     ELSE election.election_name
    IN
    IF new_start >= new_stop
    THEN Fail(d, 400, "stopTime must be greater than startTime")
    ELSE IF inp.start_time # NoTime /\ new_start < datetime_now
    THEN Fail(d, 403, "start_time must be in the future")
    ELSE IF new_stop < datetime_now /\ new_stop # election.stop_time
    THEN Fail(d, 403, "stoptime must be greater than the current time")
    ELSE IF NameTaken(d, creator_id, new_name, inp.election_id)
    THEN Fail(d, 500, "internal server error")
    ELSE Ok([d EXCEPT !.elections[inp.election_id] =
                Election(election.creator_id, new_name, new_start, new_stop)],
            inp.election_id)

update_election_details(d, inp, creator_id, datetime_now) ==
    LET auth == verify_creator(d, creator_id, inp.election_id) IN
    IF auth.code # 200 THEN auth ELSE
    LET election  == d.elections[inp.election_id]
        new_start == IF inp.start_time # NoTime THEN inp.start_time ELSE election.start_time
        new_stop  == IF inp.stop_time # NoTime THEN inp.stop_time ELSE election.stop_time
        new_name  == IF Supplied(inp.election_name) THEN inp.election_name
                     ELSE election.election_name
    IN
    IF new_start >= new_stop
    THEN Fail(d, 400, "stopTime must be greater than startTime")
    ELSE IF inp.start_time # NoTime /\ new_start < datetime_now
    THEN Fail(d, 403, "start_time must be in the future")
    ELSE IF new_stop < datetime_now /\ new_stop # election.stop_time
    THEN Fail(d, 403, "stoptime must be greater than the current time")
    ELSE IF election.start_time <= datetime_now /\ inp.start_time # NoTime
    THEN Fail(d, 403, "Election has already started. You cannot change the start time.")
    ELSE IF NameTaken(d, creator_id, new_name, inp.election_id)
    THEN Fail(d, 500, "internal server error")
    ELSE Ok([d EXCEPT !.elections[inp.election_id] =
                Election(election.creator_id, new_name, new_start, new_stop)],
            inp.election_id)

\* update_election_details, lines 217-228: the update loop runs over
\* model_dump(exclude_unset=True), whose first key is election_id
\* (schemas.py:28), and unlike the loops of update_position_details and
\* update_candidate_details it does not pop that key. Election declares no
\* field election_id (models.py:64), and what setattr does with an undeclared
\* field is decided by the installed SQLModel and pydantic: either the
\* assignment has no effect on the row, or it raises ValueError, which
\* nothing catches: the request ends in a 500 with nothing committed.
update_election_outcomes(d, inp, creator_id, datetime_now) ==
    LET out == update_election_details(d, inp, creator_id, datetime_now)
    IN  IF out.code = 200 THEN {out, Fail(d, 500, "Internal Server Error")}
        ELSE {out}

delete_election(d, election_details, creator_id) ==
    LET auth == verify_creator(d, creator_id, election_details.election_id) IN
    IF auth.code # 200 THEN auth
    ELSE Ok(CascadeElections(d, {election_details.election_id}), NoId)

PositionTaken(d, election_id, position_name, except) ==
    \E p \in DOMAIN d.positions \ {except} :
        /\ d.positions[p].election_id = election_id
        /\ d.positions[p].position_name = position_name

create_position(d, creator_id, position_details) ==
    LET auth == verify_creator(d, creator_id, position_details.election_id) IN
    IF auth.code # 200 THEN auth
    ELSE IF PositionTaken(d, position_details.election_id,
                          position_details.position_name, NoId)
    THEN Fail(d, 409, "The position already exists in this election.")
    ELSE LET id == d.nextId.position
         IN  Ok([d EXCEPT !.positions = (id :> Position(position_details.election_id,
                                                position_details.position_name)) @@ @,
                          !.nextId.position = id + 1], id)

delete_position(d, position_details, creator_id) ==
    LET auth == verify_creator(d, creator_id, position_details.election_id) IN
    IF auth.code # 200 THEN auth
    ELSE IF position_details.position_id \in DOMAIN d.positions
    THEN Ok(CascadePositions(d, {position_details.position_id}), NoId)
    ELSE Fail(d, 404, "position not found")

\* update_position_details with the test of start_time left out
update_position_details_no_lock(d, inp, creator_id, datetime_now) ==
    LET auth == verify_creator(d, creator_id, inp.election_id) IN
    IF auth.code # 200 THEN auth
    ELSE IF inp.position_id \notin DOMAIN d.positions
    THEN Fail(d, 500, "Internal Server Error")
    ELSE
    LET position == d.positions[inp.position_id]
        new_name == IF Supplied(inp.position_name) THEN inp.position_name
                    ELSE position.position_name
    IN
    IF position.election_id # inp.election_id
    THEN Fail(d, 401, "you are not authorized to edit this position")
    ELSE IF PositionTaken(d, position.election_id, new_name, inp.position_id)
    THEN Fail(d, 500, "internal server error")
    ELSE Ok([d EXCEPT !.positions[inp.position_id].position_name = new_name],
            inp.position_id)

update_position_details(d, inp, creator_id, datetime_now) ==
    LET auth == verify_creator(d, creator_id, inp.election_id) IN
    IF auth.code # 200 THEN auth
    ELSE IF inp.position_id \notin DOMAIN d.positions
    THEN \* position is None: position.election_id raises AttributeError
         Fail(d, 500, "Internal Server Error")
    ELSE
    LET position == d.positions[inp.position_id]
        new_name == IF Supplied(inp.position_name) THEN inp.position_name
                    ELSE position.position_name
    IN
    IF position.election_id # inp.election_id
    THEN Fail(d, 401, "you are not authorized to edit this position")
    ELSE IF d.elections[position.election_id].start_time <= datetime_now
    THEN Fail(d, 403, "You can't edit the position, the election has started")
    ELSE IF PositionTaken(d, position.election_id, new_name, inp.position_id)
    THEN \* IntegrityError is a DatabaseError
         Fail(d, 500, "internal server error")
    ELSE Ok([d EXCEPT !.positions[inp.position_id].position_name = new_name],
            inp.position_id)

IsAllowed(d, user_id, election_id) ==
    AllowedVoter(user_id, election_id) \in d.allowed

\* create_candidates that inserts the AllowedVoter row without looking for
\* an existing one
create_candidates_blind_insert(d, creator_id, candidate_details) ==
    LET auth == verify_creator(d, creator_id, candidate_details.election_id)
        user_id == get_user_by_email(d, candidate_details.email)
    IN
    IF auth.code # 200 THEN auth
    ELSE IF user_id = NoId THEN Fail(d, 404, "user does not exist")
    ELSE IF \/ candidate_details.position_id \notin DOMAIN d.positions
            \/ IsAllowed(d, user_id, candidate_details.election_id)
    THEN Fail(d, 409, "User is already a candidate for this position")
    ELSE LET id == d.nextId.candidate
         IN  Ok([d EXCEPT !.candidates = (id :> Candidate(user_id,
                                                 candidate_details.fullName,
                                                 candidate_details.nickname,
                                                 candidate_details.position_id)) @@ @,
                          !.allowed = @ \cup {AllowedVoter(user_id,
                                                 candidate_details.election_id)},
                          !.nextId.candidate = id + 1], id)

create_candidates(d, creator_id, candidate_details) ==
    LET auth == verify_creator(d, creator_id, candidate_details.election_id)
        user_id == get_user_by_email(d, candidate_details.email)
    IN
    IF auth.code # 200 THEN auth
    ELSE IF user_id = NoId THEN Fail(d, 404, "user does not exist")
    ELSE IF candidate_details.position_id \notin DOMAIN d.positions
    THEN \* foreign key positions.id
         Fail(d, 409, "User is already a candidate for this position")
    ELSE LET id == d.nextId.candidate
         IN  Ok([d EXCEPT !.candidates = (id :> Candidate(user_id,
                                                 candidate_details.fullName,
                                                 candidate_details.nickname,
                                                 candidate_details.position_id)) @@ @,
                          !.allowed = @ \cup {AllowedVoter(user_id,
                                                 candidate_details.election_id)},
                          !.nextId.candidate = id + 1], id)

update_candidate_details(d, inp, creator_id, datetime_now) ==
    LET auth == verify_creator(d, creator_id, inp.election_id) IN
    IF auth.code # 200 THEN auth
    ELSE IF inp.candidate_id \notin DOMAIN d.candidates
    THEN \* candidate is None: candidate.position raises AttributeError
         Fail(d, 500, "Internal Server Error")
    ELSE
    LET candidate == d.candidates[inp.candidate_id]
        position  == d.positions[candidate.position_id]
    IN
    IF position.election_id # inp.election_id
    THEN Fail(d, 401, "you are not authorized to edit this candidate")
    ELSE IF d.elections[position.election_id].start_time <= datetime_now
    THEN Fail(d, 403, "You can't edit the candidate, the election has started")
    ELSE Ok([d EXCEPT !.candidates[inp.candidate_id] =
                [candidate EXCEPT
                    !.fullName = IF Supplied(inp.fullName) THEN inp.fullName ELSE @,
                    !.nickname = IF Supplied(inp.nickname) THEN inp.nickname ELSE @]],
            inp.candidate_id)

delete_candidate(d, candidate_details, creator_id) ==
    LET auth == verify_creator(d, creator_id, candidate_details.election_id) IN
    IF auth.code # 200 THEN auth
    ELSE IF candidate_details.candidate_id \notin DOMAIN d.candidates
    THEN Fail(d, 404, "Candidate not found")
    ELSE LET candidate_user_id == d.candidates[candidate_details.candidate_id].user_id
             d1 == CascadeCandidates(d, {candidate_details.candidate_id})
         IN  Ok([d1 EXCEPT !.allowed = @ \ {AllowedVoter(candidate_user_id,
                                               candidate_details.election_id)}], NoId)

upload_candidate_picture(d, creator_id, election_id, candidate_id, file) ==
    LET auth == verify_creator(d, creator_id, election_id) IN
    IF auth.code # 200 THEN auth
    ELSE IF candidate_id \notin DOMAIN d.candidates
    THEN Fail(d, 404, "candidate not found")
    ELSE Ok([d EXCEPT !.candidates[candidate_id].candidate_picture_id = file],
            candidate_id)

\* the rows of a table column as the set of values of a sequence
Range(s) == {s[i] : i \in DOMAIN s}

\* add_allowed_voters with each insert committed on its own: the rows added
\* before the failing insert stay
add_allowed_voters_row_by_row(d, creator_id, voters_details) ==
    LET auth == verify_creator(d, creator_id, voters_details.election_id) IN
    IF auth.code # 200 THEN auth ELSE
    LET existing_voter_ids ==
            {a.user_id : a \in {x \in d.allowed :
                                  x.election_id = voters_details.election_id}}
        ToAdd(email) == get_user_by_email(d, email) # NoId
                        /\ get_user_by_email(d, email) \notin existing_voter_ids
        to_add_emails == SelectSeq(voters_details.emails, ToAdd)
        voters_to_add_ids == [i \in DOMAIN to_add_emails |->
                                 get_user_by_email(d, to_add_emails[i])]
        added == [d EXCEPT !.allowed = @ \cup
                     {AllowedVoter(u, voters_details.election_id) :
                          u \in Range(voters_to_add_ids)}]
    IN
    IF \E i \in DOMAIN voters_details.emails :
           get_user_by_email(d, voters_details.emails[i]) = creator_id
    THEN Fail(d, 400, "you can add yourself as a voter in this election")
    ELSE IF \E i, j \in DOMAIN voters_to_add_ids :
                i # j /\ voters_to_add_ids[i] = voters_to_add_ids[j]
    THEN Fail(added, 500, "internal server error")
    ELSE Ok(added, [added_count |-> Len(voters_to_add_ids),
                    already_enrolled |-> <<>>, not_registered |-> <<>>])

add_allowed_voters(d, creator_id, voters_details) ==
    LET auth == verify_creator(d, creator_id, voters_details.election_id) IN
    IF auth.code # 200 THEN auth ELSE
    LET existing_voter_ids ==
            {a.user_id : a \in {x \in d.allowed :
                                  x.election_id = voters_details.election_id}}
        Known(email) == get_user_by_email(d, email) # NoId
        Present(email) == Known(email)
                          /\ get_user_by_email(d, email) \in existing_voter_ids
        ToAdd(email) == Known(email)
                        /\ get_user_by_email(d, email) \notin existing_voter_ids
        Unknown(email) == ~Known(email)
        to_add_emails == SelectSeq(voters_details.emails, ToAdd)
        voters_to_add_ids == [i \in DOMAIN to_add_emails |->
                                 get_user_by_email(d, to_add_emails[i])]
        already_present_emails == SelectSeq(voters_details.emails, Present)
        unregistered_emails == SelectSeq(voters_details.emails, Unknown)
    IN
    IF \E i \in DOMAIN voters_details.emails :
           get_user_by_email(d, voters_details.emails[i]) = creator_id
    THEN Fail(d, 400, "you can add yourself as a voter in this election")
    ELSE IF \E i, j \in DOMAIN voters_to_add_ids :
                i # j /\ voters_to_add_ids[i] = voters_to_add_ids[j]
    THEN \* the same primary key inserted twice: IntegrityError, a DatabaseError
         Fail(d, 500, "internal server error")
    ELSE Ok([d EXCEPT !.allowed = @ \cup
                 {AllowedVoter(u, voters_details.election_id) :
                      u \in Range(voters_to_add_ids)}],
            [added_count |-> Len(voters_to_add_ids),
             already_enrolled |-> already_present_emails,
             not_registered |-> unregistered_emails])

delete_allowed_voter(d, creator_id, voters_details) ==
    LET auth == verify_creator(d, creator_id, voters_details.election_id)
        user_id == get_user_by_email(d, voters_details.email)
    IN
    IF auth.code # 200 THEN auth
    ELSE IF user_id = NoId THEN Fail(d, 404, "user does not exist")
    ELSE IF ~IsAllowed(d, user_id, voters_details.election_id)
    THEN Fail(d, 404, "User is not on the whitelist for this election")
    ELSE Ok([d EXCEPT !.allowed = @ \ {AllowedVoter(user_id,
                                           voters_details.election_id)}], NoId)

\* vote with the test of stop_time left out
vote_checks_no_stop(d, user_id, voter_input, time) ==
    IF voter_input.election_id \notin DOMAIN d.elections
    THEN Fail(d, 404, "Election does not exist")
    ELSE
    LET election == d.elections[voter_input.election_id] IN
    IF election.start_time > time
    THEN Fail(d, 400, "The election has not started")
    ELSE IF ~IsAllowed(d, user_id, voter_input.election_id)
    THEN Fail(d, 401, "You are not authorized to vote in this election")
    ELSE IF \/ voter_input.candidate_id \notin DOMAIN d.candidates
            \/ d.positions[d.candidates[voter_input.candidate_id].position_id].election_id
                   # voter_input.election_id
    THEN Fail(d, 400, "Invalid candidate selection for this election")
    ELSE IF d.candidates[voter_input.candidate_id].position_id # voter_input.position_id
    THEN Fail(d, 400, "Candidate is not running for this position")
    ELSE Ok(d, Vote(user_id, d.candidates[voter_input.candidate_id].position_id,
                    voter_input.candidate_id))

\* vote with the whitelist looked up for the user alone, in any election
vote_checks_any_whitelist(d, user_id, voter_input, time) ==
    IF voter_input.election_id \notin DOMAIN d.elections
    THEN Fail(d, 404, "Election does not exist")
    ELSE
    LET election == d.elections[voter_input.election_id] IN
    IF election.start_time > time
    THEN Fail(d, 400, "The election has not started")
    ELSE IF election.stop_time < time
    THEN Fail(d, 400, "The election has ended")
    ELSE IF ~\E a \in d.allowed : a.user_id = user_id
    THEN Fail(d, 401, "You are not authorized to vote in this election")
    ELSE IF \/ voter_input.candidate_id \notin DOMAIN d.candidates
            \/ d.positions[d.candidates[voter_input.candidate_id].position_id].election_id
                   # voter_input.election_id
    THEN Fail(d, 400, "Invalid candidate selection for this election")
    ELSE IF d.candidates[voter_input.candidate_id].position_id # voter_input.position_id
    THEN Fail(d, 400, "Candidate is not running for this position")
    ELSE Ok(d, Vote(user_id, d.candidates[voter_input.candidate_id].position_id,
                    voter_input.candidate_id))

\* vote with the whitelist looked up before the window is tested
vote_checks_whitelist_first(d, user_id, voter_input, time) ==
    IF voter_input.election_id \notin DOMAIN d.elections
    THEN Fail(d, 404, "Election does not exist")
    ELSE
    LET election == d.elections[voter_input.election_id] IN
    IF ~IsAllowed(d, user_id, voter_input.election_id)
    THEN Fail(d, 401, "You are not authorized to vote in this election")
    ELSE IF election.start_time > time
    THEN Fail(d, 400, "The election has not started")
    ELSE IF election.stop_time < time
    THEN Fail(d, 400, "The election has ended")
    ELSE IF \/ voter_input.candidate_id \notin DOMAIN d.candidates
            \/ d.positions[d.candidates[voter_input.candidate_id].position_id].election_id
                   # voter_input.election_id
    THEN Fail(d, 400, "Invalid candidate selection for this election")
    ELSE IF d.candidates[voter_input.candidate_id].position_id # voter_input.position_id
    THEN Fail(d, 400, "Candidate is not running for this position")
    ELSE Ok(d, Vote(user_id, d.candidates[voter_input.candidate_id].position_id,
                    voter_input.candidate_id))

\* vote with the window open at its end: stop_time itself is too late
vote_checks_open_end(d, user_id, voter_input, time) ==
    IF voter_input.election_id \notin DOMAIN d.elections
    THEN Fail(d, 404, "Election does not exist")
    ELSE
    LET election == d.elections[voter_input.election_id] IN
    IF election.start_time > time
    THEN Fail(d, 400, "The election has not started")
    ELSE IF election.stop_time <= time
    THEN Fail(d, 400, "The election has ended")
    ELSE IF ~IsAllowed(d, user_id, voter_input.election_id)
    THEN Fail(d, 401, "You are not authorized to vote in this election")
    ELSE IF \/ voter_input.candidate_id \notin DOMAIN d.candidates
            \/ d.positions[d.candidates[voter_input.candidate_id].position_id].election_id
                   # voter_input.election_id
    THEN Fail(d, 400, "Invalid candidate selection for this election")
    ELSE IF d.candidates[voter_input.candidate_id].position_id # voter_input.position_id
    THEN Fail(d, 400, "Candidate is not running for this position")
    ELSE Ok(d, Vote(user_id, d.candidates[voter_input.candidate_id].position_id,
                    voter_input.candidate_id))

\* vote without the comparison of the candidate's position with the one the
\* caller names
vote_checks_any_position(d, user_id, voter_input, time) ==
    IF voter_input.election_id \notin DOMAIN d.elections
    THEN Fail(d, 404, "Election does not exist")
    ELSE
    LET election == d.elections[voter_input.election_id] IN
    IF election.start_time > time
    THEN Fail(d, 400, "The election has not started")
    ELSE IF election.stop_time < time
    THEN Fail(d, 400, "The election has ended")
    ELSE IF ~IsAllowed(d, user_id, voter_input.election_id)
    THEN Fail(d, 401, "You are not authorized to vote in this election")
    ELSE IF \/ voter_input.candidate_id \notin DOMAIN d.candidates
            \/ d.positions[d.candidates[voter_input.candidate_id].position_id].election_id
                   # voter_input.election_id
    THEN Fail(d, 400, "Invalid candidate selection for this election")
    ELSE Ok(d, Vote(user_id, d.candidates[voter_input.candidate_id].position_id,
                    voter_input.candidate_id))

\* vote, lines 825-888: the reads and checks.  ret is the Vote to insert
\* (with the UPDATE of its candidate's vote_count) when they all pass.
vote_checks(d, user_id, voter_input, time) ==
    IF voter_input.election_id \notin DOMAIN d.elections
    THEN Fail(d, 404, "Election does not exist")
    ELSE
    LET election == d.elections[voter_input.election_id] IN
    IF election.start_time > time
    THEN Fail(d, 400, "The election has not started")
    ELSE IF election.stop_time < time
    THEN Fail(d, 400, "The election has ended")
    ELSE IF ~IsAllowed(d, user_id, voter_input.election_id)
    THEN Fail(d, 401, "You are not authorized to vote in this election")
    ELSE IF \/ voter_input.candidate_id \notin DOMAIN d.candidates
            \/ d.positions[d.candidates[voter_input.candidate_id].position_id].election_id
                   # voter_input.election_id
    THEN Fail(d, 400, "Invalid candidate selection for this election")
    ELSE IF d.candidates[voter_input.candidate_id].position_id # voter_input.position_id
    THEN Fail(d, 400, "Candidate is not running for this position")
    ELSE Ok(d, Vote(user_id, d.candidates[voter_input.candidate_id].position_id,
                    voter_input.candidate_id))

\* the unique constraint "duplicate_vote" on (user_id, position_id)
DuplicateVote(d, new_vote) ==
    \E v \in d.votes : v.user_id = new_vote.user_id
                       /\ v.position_id = new_vote.position_id

\* the commit with the unique constraint on (user_id, candidate_id) instead
vote_commit_per_candidate(d, new_vote) ==
    IF new_vote.candidate_id \notin DOMAIN d.candidates
    THEN Fail(d, 500, "Internal Server Error")
    ELSE IF new_vote \in d.votes
    THEN Fail(d, 400, "You have already voted for this position")
    ELSE Ok([d EXCEPT !.candidates[new_vote.candidate_id].vote_count = @ + 1,
                      !.votes = @ \cup {new_vote}], NoId)

\* the commit with the UPDATE of vote_count kept when the INSERT fails
vote_commit_no_rollback(d, new_vote) ==
    IF new_vote.candidate_id \notin DOMAIN d.candidates
    THEN Fail(d, 500, "Internal Server Error")
    ELSE IF DuplicateVote(d, new_vote)
    THEN Fail([d EXCEPT !.candidates[new_vote.candidate_id].vote_count = @ + 1],
              400, "You have already voted for this position")
    ELSE Ok([d EXCEPT !.candidates[new_vote.candidate_id].vote_count = @ + 1,
                      !.votes = @ \cup {new_vote}], NoId)

\* the commit with the duplicate reported under the primary key's own name
vote_commit_generic_conflict(d, new_vote) ==
    IF new_vote.candidate_id \notin DOMAIN d.candidates
    THEN Fail(d, 500, "Internal Server Error")
    ELSE IF DuplicateVote(d, new_vote)
    THEN Fail(d, 409, "A conflict occurred while recording your vote")
    ELSE Ok([d EXCEPT !.candidates[new_vote.candidate_id].vote_count = @ + 1,
                      !.votes = @ \cup {new_vote}], NoId)

\* the commit that stores the Vote row without the UPDATE of vote_count
vote_commit_insert_only(d, new_vote) ==
    IF new_vote.candidate_id \notin DOMAIN d.candidates
    THEN Fail(d, 500, "Internal Server Error")
    ELSE IF DuplicateVote(d, new_vote)
    THEN Fail(d, 400, "You have already voted for this position")
    ELSE Ok([d EXCEPT !.votes = @ \cup {new_vote}], NoId)

\* the commit that writes the count it read from an unvoted candidate plus
\* one, not an increment of the stored value
vote_commit_read_modify_write(d, new_vote) ==
    IF new_vote.candidate_id \notin DOMAIN d.candidates
    THEN Fail(d, 500, "Internal Server Error")
    ELSE IF DuplicateVote(d, new_vote)
    THEN Fail(d, 400, "You have already voted for this position")
    ELSE Ok([d EXCEPT !.candidates[new_vote.candidate_id].vote_count = 0 + 1,
                      !.votes = @ \cup {new_vote}], NoId)

\* vote, lines 890-915: flush and commit of the UPDATE and the INSERT
vote_commit(d, new_vote) ==
    IF new_vote.candidate_id \notin DOMAIN d.candidates
    THEN \* the UPDATE matches no row: StaleDataError, not a DatabaseError
         Fail(d, 500, "Internal Server Error")
    ELSE IF DuplicateVote(d, new_vote)
    THEN Fail(d, 400, "You have already voted for this position")
    ELSE IF new_vote.user_id \notin DOMAIN d.users
    THEN \* foreign key users.user_id
         Fail(d, 409, "A conflict occurred while recording your vote")
    ELSE Ok([d EXCEPT !.candidates[new_vote.candidate_id].vote_count = @ + 1,
                      !.votes = @ \cup {new_vote}], NoId)

\* vote as one request served alone
vote(d, user_id, voter_input, time) ==
    LET checked == vote_checks(d, user_id, voter_input, time) IN
    IF checked.code # 200 THEN checked ELSE vote_commit(d, checked.ret)

\* the rows of a relationship in the order of their ids (the queries carry
\* no ORDER BY; nothing below depends on the order chosen)
RECURSIVE InIdOrder(_)
InIdOrder(S) ==
    IF S = {} THEN <<>>
    ELSE LET m == CHOOSE x \in S : \A y \in S : x <= y
         IN  <<m>> \o InIdOrder(S \ {m})

\* the keys of {e.id: e for e in elections_combined}: each id once, in the
\* order of its first occurrence
RECURSIVE DictKeys(_)
DictKeys(ids) ==
    IF ids = <<>> THEN <<>>
    ELSE LET init == DictKeys(SubSeq(ids, 1, Len(ids) - 1))
             x    == ids[Len(ids)]
         IN  IF x \in Range(init) THEN init ELSE Append(init, x)

\* get_my_ballot, lines 1011-1033: the entry of one election
Ballot(d, user_id, election_id, time) ==
    LET election == d.elections[election_id]
        position_voted_id == {v.position_id : v \in {w \in d.votes : w.user_id = user_id}}
        has_voted == \E p \in PositionsOf(d, {election_id}) : p \in position_voted_id
    IN  [ election_id     |-> election_id,
          election_name   |-> election.election_name,
          election_status |->
              IF election.stop_time < time THEN "ended"
              ELSE IF election.stop_time > time /\ time > election.start_time
                   THEN "active"
                   ELSE "upcoming",
          creator_id      |-> election.creator_id,
          vote_status     |-> IF has_voted THEN "voted" ELSE "not voted",
          start_time      |-> election.start_time,
          stop_time       |-> election.stop_time ]

\* get_my_ballot with the two lists of elections joined and not deduplicated
get_my_ballot_no_dedup(d, user_id, time) ==
    IF user_id \notin DOMAIN d.users THEN Fail(d, 404, "user not found")
    ELSE
    LET allowed_elections == InIdOrder({e \in DOMAIN d.elections :
                                           IsAllowed(d, user_id, e)})
        election_created  == InIdOrder({e \in DOMAIN d.elections :
                                           d.elections[e].creator_id = user_id})
        relevant_elections == allowed_elections \o election_created
    IN  Ok(d, [i \in DOMAIN relevant_elections |->
                  Ballot(d, user_id, relevant_elections[i], time)])

get_my_ballot(d, user_id, time) ==
    IF user_id \notin DOMAIN d.users THEN Fail(d, 404, "user not found")
    ELSE
    LET allowed_elections == InIdOrder({e \in DOMAIN d.elections :
                                           IsAllowed(d, user_id, e)})
        election_created  == InIdOrder({e \in DOMAIN d.elections :
                                           d.elections[e].creator_id = user_id})
        relevant_elections == DictKeys(allowed_elections \o election_created)
    IN  Ok(d, [i \in DOMAIN relevant_elections |->
                  Ballot(d, user_id, relevant_elections[i], time)])

\* sorted(pos.candidates, key=lambda c: c.vote_count, reverse=True): a stable
\* sort, so candidates with equal counts keep the order of the list
RECURSIVE SortedCandidates(_, _)
SortedCandidates(d, cs) ==
    IF cs = <<>> THEN <<>>
    ELSE LET init == SortedCandidates(d, SubSeq(cs, 1, Len(cs) - 1))
             x    == cs[Len(cs)]
             k    == Cardinality({i \in DOMAIN init :
                         d.candidates[init[i]].vote_count >= d.candidates[x].vote_count})
         IN  SubSeq(init, 1, k) \o <<x>> \o SubSeq(init, k + 1, Len(init))

\* a candidate row as the leaderboard shows it
Standing(d, c) == [id |-> c, vote_count |-> d.candidates[c].vote_count]

\* get_election_result with the candidates of a position left as loaded
get_election_result_unsorted(d, creator_id, election_id) ==
    LET verified == verify_creator(d, creator_id, election_id) IN
    IF verified.code # 200 THEN verified
    ELSE
    LET positions == InIdOrder(PositionsOf(d, {election_id}))
        leaderboard ==
            [i \in DOMAIN positions |->
                LET sorted_candidates == InIdOrder(CandidatesOf(d, {positions[i]}))
                IN  [ position_name |-> d.positions[positions[i]].position_name,
                      candidates    |-> [j \in DOMAIN sorted_candidates |->
                                            Standing(d, sorted_candidates[j])] ]]
    IN  Ok(d, [election_name |-> d.elections[election_id].election_name,
               leaderboard   |-> leaderboard])

\* get_election_result, lines 917-968
get_election_result(d, creator_id, election_id) ==
    LET verified == verify_creator(d, creator_id, election_id) IN
    IF verified.code # 200 THEN verified
    ELSE
    LET positions == InIdOrder(PositionsOf(d, {election_id}))
        leaderboard ==
            [i \in DOMAIN positions |->
                LET sorted_candidates ==
                        SortedCandidates(d, InIdOrder(CandidatesOf(d, {positions[i]})))
                IN  [ position_name |-> d.positions[positions[i]].position_name,
                      candidates    |-> [j \in DOMAIN sorted_candidates |->
                                            Standing(d, sorted_candidates[j])] ]]
    IN  Ok(d, [election_name |-> d.elections[election_id].election_name,
               leaderboard   |-> leaderboard])

\* an Optional value: None, or the one value held
None == {}
Some(x) == {x}

\* a candidate and a position as get_election_details serializes them
CandidateData(d, c) ==
    [ id |-> c, user_id |-> d.candidates[c].user_id,
      fullname |-> d.candidates[c].fullName, nickname |-> d.candidates[c].nickname ]

PositionData(d, p) ==
    LET cands == InIdOrder(CandidatesOf(d, {p}))
    IN  [ id |-> p, position_name |-> d.positions[p].position_name,
          candidates |-> [j \in DOMAIN cands |-> CandidateData(d, cands[j])] ]

\* select(User.email).join(AllowedVoter ...).where(election_id): the e-mail
\* addresses of the election's whitelist (a list in no stated order)
AllowedVoterEmails(d, election_id) ==
    {d.users[u].email : u \in {v \in DOMAIN d.users : IsAllowed(d, v, election_id)}}

\* get_election_details with the voter list given to every permitted caller
get_election_details_open_list(d, user_id, election_id) ==
    IF election_id \notin DOMAIN d.elections
    THEN Fail(d, 404, "election does not exist")
    ELSE
    LET election == d.elections[election_id] IN
    IF ~IsAllowed(d, user_id, election_id) /\ user_id # election.creator_id
    THEN Fail(d, 403, "You are not whitelisted for this election")
    ELSE
    LET positions == InIdOrder(PositionsOf(d, {election_id}))
    IN  Ok(d, [ id |-> election_id,
                creator_id |-> election.creator_id,
                election_name |-> election.election_name,
                start_time |-> election.start_time,
                stop_time |-> election.stop_time,
                positions |-> [i \in DOMAIN positions |-> PositionData(d, positions[i])],
                allowed_voters |-> Some(AllowedVoterEmails(d, election_id)) ])

\* get_election_details, lines 706-812
get_election_details(d, user_id, election_id) ==
    IF election_id \notin DOMAIN d.elections
    THEN Fail(d, 404, "election does not exist")
    ELSE
    LET election == d.elections[election_id] IN
    IF ~IsAllowed(d, user_id, election_id) /\ user_id # election.creator_id
    THEN Fail(d, 403, "You are not whitelisted for this election")
    ELSE
    LET positions == InIdOrder(PositionsOf(d, {election_id}))
        allowed_voters_list ==
            IF election.creator_id = user_id
            THEN Some(AllowedVoterEmails(d, election_id))
            ELSE None
    IN  Ok(d, [ id |-> election_id,
                creator_id |-> election.creator_id,
                election_name |-> election.election_name,
                start_time |-> election.start_time,
                stop_time |-> election.stop_time,
                positions |-> [i \in DOMAIN positions |-> PositionData(d, positions[i])],
                allowed_voters |-> allowed_voters_list ])


----------------------------------------------------------------------------
(* Route handlers *)

\* what is kept of a finished call: its operation, caller and outcome, and of a
\* successful one also the request
Call(op, by, arg, out) ==
    [op |-> op, by |-> by, arg |-> IF out.code = 200 THEN arg ELSE NoId,
     code |-> out.code, detail |-> out.detail, ret |-> out.ret]

\* a free slot of txs, and txs with no vote in flight
NoVote == Vote(NoId, NoId, NoId)
NoTxs == [s \in 1..MaxInflight |-> NoVote]

NoCall == [op |-> "none", by |-> NoId, arg |-> NoId, code |-> 200,
           detail |-> "ok", ret |-> NoId]

Tick ==
    /\ now < MaxTime
    /\ now' = now + 1
    /\ last' = NoCall
    /\ UNCHANGED <<db, txs>>

CreateElection ==
    \E u \in Users, name \in ElectionNames, s \in Times, t \in Times :
        LET inp == [election_name |-> name, start_time |-> s, stop_time |-> t]
            out == create_election(db, inp, u)
        IN  /\ db.nextId.election <= MaxElections
            /\ db' = out.db
            /\ last' = Call("create_election", u, inp, out)
            /\ UNCHANGED <<now, txs>>

UpdateElection ==
    \E u \in Users, e \in 1..MaxElections, name \in ElectionNames \cup {NoName, ""},
       s \in Times \cup {NoTime}, t \in Times \cup {NoTime} :
        LET inp == [election_id |-> e, election_name |-> name,
                    start_time |-> s, stop_time |-> t]
        IN  \E out \in update_election_outcomes(db, inp, u, now) :
                /\ db' = out.db
                /\ last' = Call("update_election_details", u, inp, out)
                /\ UNCHANGED <<now, txs>>

DeleteElection ==
    \E u \in Users, e \in 1..MaxElections :
        LET inp == [election_id |-> e]
            out == delete_election(db, inp, u)
        IN  /\ db' = out.db
            /\ last' = Call("delete_election", u, inp, out)
            /\ UNCHANGED <<now, txs>>

----------------------------------------------------------------------------------------------------------------------------------------
(* Route handlers, continued *)

\* ids a request can name: every id handed out so far and one never handed out
ElectionIds(d) == 1..d.nextId.election
PositionIds(d) == 1..d.nextId.position
CandidateIds(d) == 1..d.nextId.candidate

PositionInputs(d) ==
    [election_id : ElectionIds(d), position_name : PositionNames]

CreatePosition ==
    \E u \in Users, inp \in PositionInputs(db) :
        LET out == create_position(db, u, inp)
        IN  /\ db.nextId.position <= MaxPositions
            /\ db' = out.db
            /\ last' = Call("create_position", u, inp, out)
            /\ UNCHANGED <<now, txs>>

DeletePositionInputs(d) ==
    [election_id : ElectionIds(d), position_id : PositionIds(d)]

DeletePosition ==
    \E u \in Users, inp \in DeletePositionInputs(db) :
        LET out == delete_position(db, inp, u)
        IN  /\ db' = out.db
            /\ last' = Call("delete_position", u, inp, out)
            /\ UNCHANGED <<now, txs>>

\* the names and details an update request may carry
EditNames == PositionNames \cup {NoName, "", "secretary"}
EditFullNames == {NoName, "", "bob"}
EditNicknames == {NoName, "bobby"}

UpdatePositionInputs(d) ==
    [election_id : ElectionIds(d), position_id : PositionIds(d),
     position_name : EditNames]

UpdatePosition ==
    \E u \in Users, inp \in UpdatePositionInputs(db) :
        LET out == update_position_details(db, inp, u, now)
        IN  /\ db' = out.db
            /\ last' = Call("update_position_details", u, inp, out)
            /\ UNCHANGED <<now, txs>>

CandidateInputs(d) ==
    [election_id : ElectionIds(d), position_id : PositionIds(d), email : Emails,
     fullName : {"ada"}, nickname : {NoName}]

CreateCandidates ==
    \E u \in Users, inp \in CandidateInputs(db) :
        LET out == create_candidates(db, u, inp)
        IN  /\ db.nextId.candidate <= MaxCandidates
            /\ db' = out.db
            /\ last' = Call("create_candidates", u, inp, out)
            /\ UNCHANGED <<now, txs>>

UpdateCandidateInputs(d) ==
    [election_id : ElectionIds(d), candidate_id : CandidateIds(d),
     fullName : EditFullNames, nickname : EditNicknames]

UpdateCandidate ==
    \E u \in Users, inp \in UpdateCandidateInputs(db) :
        LET out == update_candidate_details(db, inp, u, now)
        IN  /\ db' = out.db
            /\ last' = Call("update_candidate_details", u, inp, out)
            /\ UNCHANGED <<now, txs>>

DeleteCandidateInputs(d) ==
    [election_id : ElectionIds(d), candidate_id : CandidateIds(d)]

DeleteCandidate ==
    \E u \in Users, inp \in DeleteCandidateInputs(db) :
        LET out == delete_candidate(db, inp, u)
        IN  /\ db' = out.db
            /\ last' = Call("delete_candidate", u, inp, out)
            /\ UNCHANGED <<now, txs>>

UploadCandidatePicture ==
    \E u \in Users, inp \in DeleteCandidateInputs(db) :
        LET out == upload_candidate_picture(db, u, inp.election_id,
                                            inp.candidate_id, "picture")
        IN  /\ db' = out.db
            /\ last' = Call("upload_candidate_picture", u, inp, out)
            /\ UNCHANGED <<now, txs>>

\* the lists of at most MaxEmails e-mail addresses
EmailLists == UNION {[1..n -> Emails] : n \in 0..MaxEmails}

AddVotersInputs(d) == [election_id : ElectionIds(d), emails : EmailLists]

AddAllowedVoters ==
    \E u \in Users, inp \in AddVotersInputs(db) :
        LET out == add_allowed_voters(db, u, inp)
        IN  /\ db' = out.db
            /\ last' = Call("add_allowed_voters", u, inp, out)
            /\ UNCHANGED <<now, txs>>

DeleteVoterInputs(d) == [election_id : ElectionIds(d), email : Emails]

DeleteAllowedVoter ==
    \E u \in Users, inp \in DeleteVoterInputs(db) :
        LET out == delete_allowed_voter(db, u, inp)
        IN  /\ db' = out.db
            /\ last' = Call("delete_allowed_voter", u, inp, out)
            /\ UNCHANGED <<now, txs>>

VoteInputs(d) ==
    [election_id : ElectionIds(d), position_id : PositionIds(d),
     candidate_id : CandidateIds(d)]

\* a vote request served with no other request in between
VoteCall ==
    \E u \in Users, inp \in VoteInputs(db) :
        LET out == vote(db, u, inp, now)
        IN  /\ db' = out.db
            /\ last' = Call("vote", u, inp, out)
            /\ UNCHANGED <<now, txs>>

\* a vote request runs lines 825-888 in its own session
VoteBegin ==
    \E u \in Users, inp \in VoteInputs(db), s \in 1..MaxInflight :
        LET checked == vote_checks(db, u, inp, now)
        IN  /\ txs[s] = NoVote
            /\ \A r \in 1..(s - 1) : txs[r] # NoVote
            /\ IF checked.code = 200
               THEN txs' = [txs EXCEPT ![s] = checked.ret] /\ last' = last
               ELSE txs' = txs /\ last' = Call("vote", u, inp, checked)
            /\ UNCHANGED <<now, db>>

\* a vote request that passed its checks runs lines 890-915
VoteCommit ==
    \E s \in 1..MaxInflight :
        LET out == vote_commit(db, txs[s])
        IN  /\ txs[s] # NoVote
            /\ db' = out.db
            /\ txs' = [txs EXCEPT ![s] = NoVote]
            /\ last' = [op |-> "vote", by |-> txs[s].user_id, arg |-> txs[s],
                        code |-> out.code, detail |-> out.detail, ret |-> out.ret]
            /\ UNCHANGED now

GetMyBallot ==
    \E u \in Users :
        LET out == get_my_ballot(db, u, now)
        IN  /\ db' = out.db
            /\ last' = Call("get_my_ballot", u, u, out)
            /\ UNCHANGED <<now, txs>>

GetElectionResult ==
    \E u \in Users, e \in ElectionIds(db) :
        LET out == get_election_result(db, u, e)
        IN  /\ db' = out.db
            /\ last' = Call("get_election_result", u, e, out)
            /\ UNCHANGED <<now, txs>>

GetElectionDetails ==
    \E u \in Users, e \in ElectionIds(db) :
        LET out == get_election_details(db, u, e)
        IN  /\ db' = out.db
            /\ last' = Call("get_election_details", u, e, out)
            /\ UNCHANGED <<now, txs>>

----------------------------------------------------------------------------
(* Databases the service reaches by the calls listed *)

\* two elections by two creators, nothing under them
TwoElections ==
    LET d1 == create_election(EmptyDb, [election_name |-> "general",
                                        start_time |-> 1, stop_time |-> 2], 1).db
    IN  create_election(d1, [election_name |-> "senate",
                             start_time |-> 2, stop_time |-> 3], 2).db

NewCandidate(e, p, u) ==
    [election_id |-> e, position_id |-> p, email |-> EmailOf(u),
     fullName |-> "ada", nickname |-> NoName]

\* election 1 (by user 1, open from 1 to 2): position 1 with candidates 1, 2
\* and position 2 with candidate 3; election 2 (by user 2, open from 2 to 3):
\* position 3 with candidate 4.
Ballots ==
    LET d1 == create_position(TwoElections, 1,
                  [election_id |-> 1, position_name |-> "president"]).db
        d2 == create_position(d1, 1,
                  [election_id |-> 1, position_name |-> "treasurer"]).db
        d3 == create_position(d2, 2,
                  [election_id |-> 2, position_name |-> "president"]).db
        d4 == create_candidates(d3, 1, NewCandidate(1, 1, 1)).db
        d5 == create_candidates(d4, 1, NewCandidate(1, 1, 2)).db
        d6 == create_candidates(d5, 1, NewCandidate(1, 2, 2)).db
    IN  create_candidates(d6, 2, NewCandidate(2, 3, 2)).db

\* Ballots, then user 3 put on the whitelist of election 1 by
\* add_allowed_voters and made candidate 5 for position 2; user 2 stands for
\* positions 1 and 2 of election 1
Nominees ==
    LET d1 == add_allowed_voters(Ballots, 1,
                  [election_id |-> 1, emails |-> <<EmailOf(3)>>]).db
    IN  create_candidates(d1, 1, NewCandidate(1, 2, 3)).db

\* election 1 (by user 1, open from 1 to 2): position 1 with candidates 1
\* (user 1) and 2 (user 2), who are its whitelist; election 2 is empty
Runoff ==
    LET d1 == create_position(TwoElections, 1,
                  [election_id |-> 1, position_name |-> "president"]).db
        d2 == create_candidates(d1, 1, NewCandidate(1, 1, 1)).db
    IN  create_candidates(d2, 1, NewCandidate(1, 1, 2)).db

\* election 1: positions 1 and 2, candidate 1 for position 1;
\* election 2: position 3 with candidate 2
Slate ==
    LET d1 == create_position(TwoElections, 1,
                  [election_id |-> 1, position_name |-> "president"]).db
        d2 == create_position(d1, 1,
                  [election_id |-> 1, position_name |-> "treasurer"]).db
        d3 == create_position(d2, 2,
                  [election_id |-> 2, position_name |-> "president"]).db
        d4 == create_candidates(d3, 1, NewCandidate(1, 1, 1)).db
    IN  create_candidates(d4, 2, NewCandidate(2, 3, 2)).db

----------------------------------------------------------------------------
(* Specifications *)

\* elections only, from the empty database
InitElection ==
    /\ now = 0
    /\ db = EmptyDb
    /\ txs = NoTxs
    /\ last = NoCall

NextElection ==
    \/ Tick
    \/ CreateElection
    \/ UpdateElection
    \/ DeleteElection

SpecElection == InitElection /\ [][NextElection]_vars

\* the voting core: requests served one at a time
Init ==
    /\ now = 0
    /\ db = Ballots
    /\ txs = NoTxs
    /\ last = NoCall

Next ==
    \/ Tick
    \/ VoteCall
    \/ DeleteAllowedVoter

Spec == Init /\ [][Next]_vars

\* positions and candidates under two elections
InitStructure ==
    /\ now = 0
    /\ db = TwoElections
    /\ txs = NoTxs
    /\ last = NoCall

NextStructure ==
    \/ Tick
    \/ CreatePosition
    \/ DeletePosition
    \/ CreateCandidates
    \/ DeleteCandidate
    \/ UploadCandidatePicture

SpecStructure == InitStructure /\ [][NextStructure]_vars

\* edits of the positions and candidates of two elections
InitEdit ==
    /\ now = 0
    /\ db = Slate
    /\ txs = NoTxs
    /\ last = NoCall

NextEdit ==
    \/ Tick
    \/ UpdatePosition
    \/ UpdateCandidate

SpecEdit == InitEdit /\ [][NextEdit]_vars

\* the voting core: vote requests served concurrently
InitRace ==
    /\ now = 0
    /\ db = Runoff
    /\ txs = NoTxs
    /\ last = NoCall

NextRace ==
    \/ Tick
    \/ VoteBegin
    \/ VoteCommit

SpecRace == InitRace /\ [][NextRace]_vars

\* the whitelist of two elections
InitWhitelist ==
    /\ now = 0
    /\ db = TwoElections
    /\ txs = NoTxs
    /\ last = NoCall

NextWhitelist ==
    \/ AddAllowedVoters
    \/ DeleteAllowedVoter

SpecWhitelist == InitWhitelist /\ [][NextWhitelist]_vars

\* ballots read between votes
NextBallot ==
    \/ Tick
    \/ VoteCall
    \/ DeleteAllowedVoter
    \/ GetMyBallot

SpecBallot == Init /\ [][NextBallot]_vars

\* results read between votes
NextResult ==
    \/ Tick
    \/ VoteCall
    \/ GetElectionResult

SpecResult == Init /\ [][NextResult]_vars

\* votes cast while candidates, positions and elections are deleted
NextLifecycle ==
    \/ Tick
    \/ VoteCall
    \/ DeleteCandidate
    \/ DeletePosition
    \/ DeleteElection

SpecLifecycle == InitRace /\ [][NextLifecycle]_vars

\* election details read while the whitelist shrinks
NextDetails ==
    \/ Tick
    \/ DeleteAllowedVoter
    \/ GetElectionDetails

SpecDetails == Init /\ [][NextDetails]_vars

\* candidates and whitelist rows removed
InitCandidacy ==
    /\ now = 0
    /\ db = Nominees
    /\ txs = NoTxs
    /\ last = NoCall

NextCandidacy ==
    \/ Tick
    \/ DeleteCandidate
    \/ DeleteAllowedVoter
    \/ DeleteElection

SpecCandidacy == InitCandidacy /\ [][NextCandidacy]_vars

----------------------------------------------------------------------------
(* Accounts and one-time passwords *)

\* time is counted in ticks: an OTP lives one tick (get_expiry_time(10)), an
\* unverified account two (unregisted_user_limit); the process was started,
\* and DbCleanup.datetime_now evaluated, at tick 0
OtpLifetime == 1
unregisted_user_limit == 2
DbCleanup_datetime_now == 0

OtpTypes == {"signup", "forgotpassword"}
\* generate_otp() draws a code; two codes are enough to tell rows apart
OtpCodes == {"135790", "246802"}

User(email, email_verified, created_at) ==
    [email |-> email, email_verified |-> email_verified, created_at |-> created_at]

\* a SignupOtp or ForgotPasswordOtp row
Otp(otp_id, otp, user_id, created_at) ==
    [otp_id |-> otp_id, otp |-> otp, user_id |-> user_id,
     created_at |-> created_at, expires |-> created_at + OtpLifetime]

OtpTable(d, type) == IF type = "signup" THEN d.signupOtp ELSE d.forgotPasswordOtp

\* save_otp, emailServices lines 46-69
save_otp(d, user_id, type, otp, time) ==
    LET new_otp == Otp(d.nextId.otp, otp, user_id, time)
    IN  Ok(IF type = "signup"
           THEN [d EXCEPT !.signupOtp = @ \cup {new_otp}, !.nextId.otp = @ + 1]
           ELSE [d EXCEPT !.forgotPasswordOtp = @ \cup {new_otp}, !.nextId.otp = @ + 1],
           new_otp.otp_id)

\* .order_by(model.created_at.desc()) ... first(): timestamps of rows saved
\* within one tick are in the order of the saves, which is that of the ids
LatestOtp(rows) ==
    CHOOSE r \in rows : \A q \in rows :
        \/ q.created_at < r.created_at
        \/ q.created_at = r.created_at /\ q.otp_id <= r.otp_id

\* verify_otp, auth lines 90-192
verify_otp(d, otp_input, time) ==
    LET rows == {r \in OtpTable(d, otp_input.otp_type) : r.user_id = otp_input.user_id} IN
    IF rows = {} THEN Fail(d, 400, "no otp found for this user")
    ELSE
    LET latest_otp_record == LatestOtp(rows) IN
    IF latest_otp_record.otp # otp_input.otp
    THEN Fail(d, 400, "Invalid OTP code")
    ELSE IF time > latest_otp_record.expires
    THEN Fail(d, 400, "otp expired, get new otp")
    ELSE IF otp_input.otp_type = "signup"
    THEN IF otp_input.user_id \notin DOMAIN d.users
         THEN Fail(d, 404, "User not found")
         ELSE Ok([d EXCEPT !.users[otp_input.user_id].email_verified = TRUE,
                           !.signupOtp = @ \ {latest_otp_record}],
                 otp_input.user_id)
    ELSE Ok([d EXCEPT !.forgotPasswordOtp = @ \ {latest_otp_record}], otp_input.user_id)

\* DbCleanup.users_cleanup, db/main.py lines 57-72
users_cleanup(d) ==
    LET unverified_users ==
            {u \in DOMAIN d.users :
                /\ d.users[u].email_verified = FALSE
                /\ d.users[u].created_at + unregisted_user_limit < DbCleanup_datetime_now}
    IN  Ok([d EXCEPT !.users = Drop(@, unverified_users)], NoId)

\* DbCleanup.universal_otp_cleanup, db/main.py lines 74-94
universal_otp_cleanup(d) ==
    Ok([d EXCEPT !.signupOtp = {r \in @ : ~(r.expires <= DbCleanup_datetime_now)},
                 !.forgotPasswordOtp = {r \in @ : ~(r.expires <= DbCleanup_datetime_now)}],
       NoId)

VerifyOtpInputs == [user_id : Users, otp : OtpCodes, otp_type : OtpTypes]

SaveOtp ==
    \E u \in DOMAIN db.users, type \in OtpTypes, otp \in OtpCodes :
        LET out == save_otp(db, u, type, otp, now)
        IN  /\ db.nextId.otp <= MaxOtps
            /\ db' = out.db
            /\ last' = Call("save_otp", u, [user_id |-> u, otp_type |-> type], out)
            /\ UNCHANGED <<now, txs>>

VerifyOtp ==
    \E otp_input \in VerifyOtpInputs :
        LET out == verify_otp(db, otp_input, now)
        IN  /\ db' = out.db
            /\ last' = Call("verify_otp", otp_input.user_id, otp_input, out)
            /\ UNCHANGED <<now, txs>>

\* the scheduler's two interval jobs, __init__.py lines 27-30
UsersCleanup ==
    LET out == users_cleanup(db)
    IN  /\ db' = out.db
        /\ last' = Call("users_cleanup", NoId, NoId, out)
        /\ UNCHANGED <<now, txs>>

UniversalOtpCleanup ==
    LET out == universal_otp_cleanup(db)
    IN  /\ db' = out.db
        /\ last' = Call("universal_otp_cleanup", NoId, NoId, out)
        /\ UNCHANGED <<now, txs>>

\* the tables as a process started at tick 0 finds them: user 1 signed up
\* three ticks ago and never verified, its OTP is long expired; user 2 has
\* just signed up; user 3 is verified
Accounts ==
    [ users             |-> (1 :> User(EmailOf(1), FALSE, 0 - 3))
                            @@ (2 :> User(EmailOf(2), FALSE, 0))
                            @@ (3 :> User(EmailOf(3), TRUE, 0 - 3)),
      signupOtp         |-> {Otp(1, "135790", 1, 0 - 3)},
      forgotPasswordOtp |-> {},
      nextId            |-> [otp |-> 2] ]

InitAuth ==
    /\ now = 0
    /\ db = Accounts
    /\ txs = NoTxs
    /\ last = NoCall

NextAuth ==
    \/ Tick
    \/ SaveOtp
    \/ VerifyOtp
    \/ UsersCleanup
    \/ UniversalOtpCleanup

SpecAuth == InitAuth /\ [][NextAuth]_vars

\* the clock runs and the scheduler keeps running both jobs
SpecCleanup ==
    /\ SpecAuth
    /\ WF_vars(Tick)
    /\ WF_vars(UsersCleanup)
    /\ WF_vars(UniversalOtpCleanup)

----------------------------------------------------------------------------
(* Properties of the voting core *)

AlreadyVoted == "You have already voted for this position"

HasVoted(d, user_id, position_id) ==
    \E v \in d.votes : v.user_id = user_id /\ v.position_id = position_id

\* C1: in every reachable state each (user, position) pair has at most one
\* Vote row; a vote call by a user who already has a Vote row for the
\* position is rejected and leaves the database (every vote_count with it)
\* as it was, and the rejection is "already voted" whenever the request
\* passes the checks that come before the insert.
C1_OneVotePerPosition ==
    /\ \A v, w \in db.votes :
           (v.user_id = w.user_id /\ v.position_id = w.position_id) => v = w
    /\ \A u \in Users, inp \in VoteInputs(db) :
           HasVoted(db, u, inp.position_id) =>
               LET out == vote(db, u, inp, now)
               IN  /\ out.code # 200
                   /\ out.db = db
                   /\ vote_checks(db, u, inp, now).code = 200 =>
                          out.code = 400 /\ out.detail = AlreadyVoted

\* a second vote has just been refused as "already voted"
C1_Witness ==
    /\ last.op = "vote"
    /\ last.code = 400
    /\ last.detail = AlreadyVoted
    /\ \E v \in db.votes : v.user_id = last.by

\* C2: a vote call that succeeds adds exactly the Vote row (caller, the
\* candidate's position, the candidate) and raises exactly that candidate's
\* vote_count by 1, and changes nothing else; a vote call that fails leaves
\* the Vote rows and every vote_count (the whole database) as they were.
C2_VoteEffect ==
    \A u \in Users, inp \in VoteInputs(db) :
        LET out == vote(db, u, inp, now)
            c   == inp.candidate_id
        IN  IF out.code = 200
            THEN /\ c \in DOMAIN db.candidates
                 /\ Vote(u, db.candidates[c].position_id, c) \notin db.votes
                 /\ out.db = [db EXCEPT
                        !.votes = @ \cup {Vote(u, db.candidates[c].position_id, c)},
                        !.candidates[c].vote_count = @ + 1]
            ELSE out.db = db

\* a vote has just been recorded
C2_Witness ==
    /\ last.op = "vote"
    /\ last.code = 200
    /\ Vote(last.by, last.arg.position_id, last.arg.candidate_id) \in db.votes
    /\ db.candidates[last.arg.candidate_id].vote_count = 1

\* C3: a vote call made when now < start_time fails with "not started", one
\* made when now > stop_time fails with "ended", neither changes the
\* database; so a vote is only ever recorded at a time inside the window
\* the election has at that moment.
C3_VotingWindow ==
    \A u \in Users, inp \in VoteInputs(db) :
        inp.election_id \in DOMAIN db.elections =>
            LET election == db.elections[inp.election_id]
                out == vote(db, u, inp, now)
            IN  /\ now < election.start_time =>
                       /\ out.code = 400
                       /\ out.detail = "The election has not started"
                       /\ out.db = db
                /\ now > election.stop_time =>
                       /\ out.code = 400
                       /\ out.detail = "The election has ended"
                       /\ out.db = db
                /\ out.code = 200 =>
                       election.start_time <= now /\ now <= election.stop_time

\* a vote was refused after the election ended, votes having been cast in it
C3_Witness ==
    /\ last.op = "vote"
    /\ last.detail = "The election has ended"
    /\ \E v \in db.votes :
           db.elections[db.positions[v.position_id].election_id].stop_time < now

\* C4: a user with no AllowedVoter row for an election cannot vote in it:
\* the call creates no Vote row (it changes nothing), and inside the
\* election's window it is refused as unauthorized (401) whatever candidate
\* and position it names; this holds after delete_allowed_voter removed the
\* user as well.
C4_WhitelistOnly ==
    \A u \in Users, inp \in VoteInputs(db) :
        (inp.election_id \in DOMAIN db.elections
            /\ ~IsAllowed(db, u, inp.election_id)) =>
            LET election == db.elections[inp.election_id]
                out == vote(db, u, inp, now)
            IN  /\ out.code # 200
                /\ out.db = db
                /\ (election.start_time <= now /\ now <= election.stop_time) =>
                       /\ out.code = 401
                       /\ out.detail = "You are not authorized to vote in this election"

\* a user who voted and was then taken off the whitelist is refused
C4_Witness ==
    /\ last.op = "vote"
    /\ last.code = 401
    /\ \E v \in db.votes :
           /\ v.user_id = last.by
           /\ ~IsAllowed(db, last.by, db.positions[v.position_id].election_id)
           /\ db.elections[db.positions[v.position_id].election_id].stop_time >= now

\* the votes recorded for a position, and the sum of vote_count over its
\* candidates
VotesFor(d, position_id) == {v \in d.votes : v.position_id = position_id}

RECURSIVE SumVoteCount(_, _)
SumVoteCount(d, C) ==
    IF C = {} THEN 0
    ELSE LET c == CHOOSE x \in C : TRUE
         IN  d.candidates[c].vote_count + SumVoteCount(d, C \ {c})

TotalCount(d, position_id) == SumVoteCount(d, CandidatesOf(d, {position_id}))

Pending == {s \in 1..MaxInflight : txs[s] # NoVote}

\* C5: with vote requests in flight together (each past its checks, none
\* committed), the commit of one whose user has no Vote row for the position
\* succeeds, adds that row and raises the position's total vote_count by
\* exactly 1; the commit of one whose user already has a Vote row for the
\* position (a rival committed first) is answered 400 "already voted", not
\* 409 or 500, and changes nothing.  So of two in-flight votes by one user
\* for one position exactly one commits, and the Vote rows of a position
\* always number the sum of its candidates' vote_count.
C5_ConcurrentVotes ==
    /\ \A s \in Pending :
           LET out == vote_commit(db, txs[s])
               p   == txs[s].position_id
           IN  IF HasVoted(db, txs[s].user_id, p)
               THEN /\ out.code = 400
                    /\ out.detail = AlreadyVoted
                    /\ out.db = db
               ELSE /\ out.code = 200
                    /\ out.db.votes = db.votes \cup {txs[s]}
                    /\ TotalCount(out.db, p) = TotalCount(db, p) + 1
                    /\ \A t \in Pending \ {s} :
                           (txs[t].user_id = txs[s].user_id /\ txs[t].position_id = p)
                               => LET lost == vote_commit(out.db, txs[t])
                                  IN  /\ lost.code = 400
                                      /\ lost.detail = AlreadyVoted
                                      /\ lost.db = out.db
    /\ \A v, w \in db.votes :
           (v.user_id = w.user_id /\ v.position_id = w.position_id) => v = w
    /\ \A p \in DOMAIN db.positions :
           TotalCount(db, p) = Cardinality(VotesFor(db, p))

\* of two votes by one user for one position in flight together, the one in
\* the first slot has just committed and the other has yet to commit: the
\* second slot is only filled while the first is taken, and no request has
\* begun since the commit (it would have taken the first slot)
C5_Witness ==
    /\ last.op = "vote"
    /\ last.code = 200
    /\ txs[1] = NoVote
    /\ txs[2] # NoVote
    /\ txs[2].user_id = last.arg.user_id
    /\ txs[2].position_id = last.arg.position_id
    /\ txs[2].candidate_id # last.arg.candidate_id

----------------------------------------------------------------------------
(* Properties of elections and their structure *)

\* C6: in every reachable state every election has start_time < stop_time:
\* create_election rejects every input with stop_time <= start_time, and
\* update_election_details rejects every request whose supplied fields,
\* merged over the stored ones, give start_time >= stop_time.
C6_StartBeforeStop ==
    /\ \A e \in DOMAIN db.elections :
           db.elections[e].start_time < db.elections[e].stop_time
    /\ (last.op = "create_election" /\ last.code = 200) =>
           last.arg.start_time < last.arg.stop_time
    /\ \A e \in DOMAIN db.elections, s \in Times \cup {NoTime},
          t \in Times \cup {NoTime} :
           LET election == db.elections[e]
               merged_start == IF s # NoTime THEN s ELSE election.start_time
               merged_stop  == IF t # NoTime THEN t ELSE election.stop_time
               out == update_election_details(db, [election_id |-> e,
                          election_name |-> NoName, start_time |-> s,
                          stop_time |-> t], election.creator_id, now)
           IN  merged_start >= merged_stop => (out.code # 200 /\ out.db = db)

\* the positions of an election and the candidates under them, with their
\* names and details
Structure(d, e) ==
    [ positions  |-> [p \in PositionsOf(d, {e}) |-> d.positions[p].position_name],
      candidates |-> [c \in CandidatesOf(d, PositionsOf(d, {e})) |->
                         [ user_id     |-> d.candidates[c].user_id,
                           fullName    |-> d.candidates[c].fullName,
                           nickname    |-> d.candidates[c].nickname,
                           position_id |-> d.candidates[c].position_id ]] ]

\* C7: once an election's start_time <= now, no step changes the set of its
\* positions and candidates or their names and details: create_position,
\* delete_position, create_candidates and delete_candidate on it are
\* rejected and leave the state unchanged.
C7_FrozenAfterStart ==
    [][\A e \in DOMAIN db.elections :
           db.elections[e].start_time <= now =>
               Structure(db', e) = Structure(db, e)]_vars

\* everything stored for an election: its row, its positions, the
\* candidates under them and its whitelist
ElectionData(d, e) ==
    [ election   |-> d.elections[e],
      positions  |-> [p \in PositionsOf(d, {e}) |-> d.positions[p]],
      candidates |-> [c \in CandidatesOf(d, PositionsOf(d, {e})) |-> d.candidates[c]],
      allowed    |-> {a \in d.allowed : a.election_id = e} ]

\* C8: a call by a user who is not the creator of an election leaves
\* everything stored for that election unchanged, whatever election_id the
\* request carries.
C8_CreatorOnly ==
    [][\A e \in DOMAIN db.elections :
           (last'.op # "none" /\ last'.by # db.elections[e].creator_id) =>
               ElectionData(db', e) = ElectionData(db, e)]_vars

\* the candidate after an update that supplies fullName and nickname
Edited(candidate, fullName, nickname) ==
    [candidate EXCEPT
        !.fullName = IF Supplied(fullName) THEN fullName ELSE @,
        !.nickname = IF Supplied(nickname) THEN nickname ELSE @]

\* update_candidate_details by the creator of the owning election: 403 and
\* no change once start_time <= now, else the supplied fields are applied
CandidateEditLock ==
    \A c \in DOMAIN db.candidates, fullName \in EditFullNames,
      nickname \in EditNicknames :
        LET e   == db.positions[db.candidates[c].position_id].election_id
            out == update_candidate_details(db, [election_id |-> e,
                       candidate_id |-> c, fullName |-> fullName,
                       nickname |-> nickname], db.elections[e].creator_id, now)
        IN  IF db.elections[e].start_time <= now
            THEN out.code = 403 /\ out.db = db
            ELSE /\ out.code = 200
                 /\ out.db = [db EXCEPT !.candidates[c] =
                                  Edited(db.candidates[c], fullName, nickname)]

----------------------------------------------------------------------------
(* Properties of the whitelist *)

\* the emails of a list as a set
Listed(emails) == {emails[i] : i \in DOMAIN emails}

\* C10: for every list of emails the creator of an election sends (the
\* creator's own email, which line 646 refuses by rule, left aside),
\* add_allowed_voters returns a report that puts each email of the list in
\* exactly one of three groups: newly added, already_enrolled (its user had
\* an AllowedVoter row for the election before the call) and not_registered
\* (no user has it); added_count is the number of AllowedVoter rows the call
\* inserted, and exactly the newly added users have gained a row.
C10_ThreeGroups ==
    \A e \in DOMAIN db.elections, emails \in EmailLists :
        (\A i \in DOMAIN emails : emails[i] # EmailOf(db.elections[e].creator_id)) =>
        LET out == add_allowed_voters(db, db.elections[e].creator_id,
                       [election_id |-> e, emails |-> emails])
            inserted == out.db.allowed \ db.allowed
            Added(email) ==
                AllowedVoter(get_user_by_email(db, email), e) \in inserted
            Enrolled(email) == email \in Listed(out.ret.already_enrolled)
            Unregistered(email) == email \in Listed(out.ret.not_registered)
        IN  /\ out.code = 200
            /\ db.allowed \subseteq out.db.allowed
            /\ \A a \in inserted : a.election_id = e
            /\ out.ret.added_count = Cardinality(inserted)
            /\ Listed(out.ret.already_enrolled) \cup Listed(out.ret.not_registered)
                   \subseteq Listed(emails)
            /\ \A email \in Listed(emails) :
                   /\ Enrolled(email) <=>
                          IsAllowed(db, get_user_by_email(db, email), e)
                   /\ Unregistered(email) <=> get_user_by_email(db, email) = NoId
                   /\ \/ Added(email) /\ ~Enrolled(email) /\ ~Unregistered(email)
                      \/ ~Added(email) /\ Enrolled(email) /\ ~Unregistered(email)
                      \/ ~Added(email) /\ ~Enrolled(email) /\ Unregistered(email)
            /\ \A a \in inserted :
                   \E email \in Listed(emails) :
                       a.user_id = get_user_by_email(db, email)

\* C11: add_allowed_voters is atomic per call: a call that returns commits
\* an AllowedVoter row for every registered, not yet enrolled user of its
\* list and changes nothing else; a call that raises an error (not the
\* creator, no such election, the creator's own email, a database error at
\* commit) leaves the whitelist and the whole database as before the call.
C11_AtomicWhitelist ==
    \A u \in Users, inp \in AddVotersInputs(db) :
        LET out == add_allowed_voters(db, u, inp)
            fresh == {AllowedVoter(get_user_by_email(db, email), inp.election_id) :
                         email \in {x \in Listed(inp.emails) :
                             /\ get_user_by_email(db, x) # NoId
                             /\ ~IsAllowed(db, get_user_by_email(db, x),
                                           inp.election_id)}}
        IN  IF out.code = 200
            THEN out.db = [db EXCEPT !.allowed = @ \cup fresh]
            ELSE out.db = db

\* a call has just failed at commit with a database error, after an earlier
\* call had put rows on the whitelist
C11_Witness ==
    /\ last.op = "add_allowed_voters"
    /\ last.code = 500
    /\ db.allowed # {}

----------------------------------------------------------------------------
(* Properties of the implicit whitelist *)

Unauthorized == "You are not authorized to vote in this election"

----------------------------------------------------------------------------
(* Properties of the ballot *)

\* C14: for every election in a user's ballot, get_my_ballot reports
\* election_status "upcoming" exactly when now < start_time, "active"
\* exactly when start_time <= now <= stop_time and "ended" exactly when
\* now > stop_time, now = start_time and now = stop_time included.
C14_BallotStatus ==
    \A u \in Users :
        LET out == get_my_ballot(db, u, now)
        IN  \A i \in DOMAIN out.ret :
                out.ret[i].election_status =
                    IF now < out.ret[i].start_time THEN "upcoming"
                    ELSE IF now <= out.ret[i].stop_time THEN "active"
                    ELSE "ended"

\* C15: get_my_ballot returns exactly one entry for each election the user
\* created or is whitelisted for and none for any other election, marks an
\* entry "voted" exactly when the user has a Vote row for a position of that
\* election, and leaves the database as it was.
C15_BallotEntries ==
    \A u \in Users :
        LET out == get_my_ballot(db, u, now)
        IN  /\ out.code = 200
            /\ out.db = db
            /\ \A i, j \in DOMAIN out.ret :
                   out.ret[i].election_id = out.ret[j].election_id => i = j
            /\ \A i \in DOMAIN out.ret :
                   LET e == out.ret[i].election_id
                   IN  /\ e \in DOMAIN db.elections
                       /\ db.elections[e].creator_id = u \/ IsAllowed(db, u, e)
                       /\ out.ret[i].vote_status \in {"voted", "not voted"}
                       /\ out.ret[i].vote_status = "voted" <=>
                              \E v \in db.votes :
                                  /\ v.user_id = u
                                  /\ db.positions[v.position_id].election_id = e
            /\ \A e \in DOMAIN db.elections :
                   (db.elections[e].creator_id = u \/ IsAllowed(db, u, e)) =>
                       \E i \in DOMAIN out.ret : out.ret[i].election_id = e

\* a ballot has just been read that holds an election its reader both
\* created and is whitelisted for, marked "voted", next to one marked
\* "not voted"
C15_Witness ==
    /\ last.op = "get_my_ballot"
    /\ last.code = 200
    /\ \E i, j \in DOMAIN last.ret :
           /\ last.ret[i].vote_status = "voted"
           /\ last.ret[i].creator_id = last.by
           /\ IsAllowed(db, last.by, last.ret[i].election_id)
           /\ last.ret[j].vote_status = "not voted"

----------------------------------------------------------------------------
(* Properties of the order and the bounds of the checks of vote *)

\* the checks of vote, each stated on its own: does check k fail for this
\* request?  A check that needs a row an earlier check found missing fails
\* with it.
CheckFails(k, d, user_id, inp, time) ==
    LET found    == inp.election_id \in DOMAIN d.elections
        running  == inp.candidate_id \in DOMAIN d.candidates
    IN  CASE k = 1 -> ~found
          [] k = 2 -> ~found \/ time < d.elections[inp.election_id].start_time
                             \/ time > d.elections[inp.election_id].stop_time
          [] k = 3 -> ~IsAllowed(d, user_id, inp.election_id)
          [] k = 4 -> ~running
                      \/ d.positions[d.candidates[inp.candidate_id].position_id].election_id
                             # inp.election_id
          [] k = 5 -> ~running
                      \/ d.candidates[inp.candidate_id].position_id # inp.position_id
          [] k = 6 -> running /\ HasVoted(d, user_id,
                                          d.candidates[inp.candidate_id].position_id)

\* the error of check k
CheckError(k, d, inp, time) ==
    CASE k = 1 -> <<404, "Election does not exist">>
      [] k = 2 -> <<400, IF time < d.elections[inp.election_id].start_time
                         THEN "The election has not started"
                         ELSE "The election has ended">>
      [] k = 3 -> <<401, Unauthorized>>
      [] k = 4 -> <<400, "Invalid candidate selection for this election">>
      [] k = 5 -> <<400, "Candidate is not running for this position">>
      [] k = 6 -> <<400, AlreadyVoted>>

\* C16: the checks of vote short-circuit in the order (1) election not
\* found, (2) not started / ended, (3) not whitelisted, (4) candidate not
\* in this election, (5) candidate not running for the supplied position,
\* (6) already voted: the error returned is that of the earliest check that
\* fails, and the vote succeeds when none does.
C16_CheckOrder ==
    \A u \in Users, inp \in VoteInputs(db) :
        LET out    == vote(db, u, inp, now)
            failed == {k \in 1..6 : CheckFails(k, db, u, inp, now)}
        IN  IF failed = {}
            THEN out.code = 200
            ELSE LET first == CHOOSE k \in failed : \A j \in failed : k <= j
                 IN  <<out.code, out.detail>> = CheckError(first, db, inp, now)

\* a vote by a user who is on no whitelist has just been refused as "ended":
\* the window check and the whitelist check both fail, the earlier answers
C16_Witness ==
    /\ last.op = "vote"
    /\ last.code = 400
    /\ last.detail = "The election has ended"
    /\ \A e \in DOMAIN db.elections : ~IsAllowed(db, last.by, e)

\* a first vote by a whitelisted user for a candidate of the election and
\* position the request names
ValidBallot(d, user_id, inp) ==
    /\ inp.election_id \in DOMAIN d.elections
    /\ IsAllowed(d, user_id, inp.election_id)
    /\ inp.candidate_id \in DOMAIN d.candidates
    /\ d.candidates[inp.candidate_id].position_id = inp.position_id
    /\ d.positions[inp.position_id].election_id = inp.election_id
    /\ ~HasVoted(d, user_id, inp.position_id)

\* C17 as stated: the window is inclusive at the start and open at the end:
\* a valid first vote by a whitelisted user is accepted exactly when
\* start_time <= now < stop_time, and refused as "ended" at now = stop_time.
C17_WindowOpenAtEnd ==
    \A u \in Users, inp \in VoteInputs(db) :
        ValidBallot(db, u, inp) =>
            LET election == db.elections[inp.election_id]
                out == vote(db, u, inp, now)
            IN  /\ out.code = 200 <=>
                       (election.start_time <= now /\ now < election.stop_time)
                /\ now = election.stop_time =>
                       out.detail = "The election has ended"

\* C17: the window is closed at both ends: a valid first vote by a
\* whitelisted user is accepted exactly when start_time <= now <= stop_time,
\* so at now = start_time and at now = stop_time it is recorded, and it is
\* refused as "ended" only when now > stop_time.
C17_WindowClosedAtEnd ==
    \A u \in Users, inp \in VoteInputs(db) :
        ValidBallot(db, u, inp) =>
            LET election == db.elections[inp.election_id]
                out == vote(db, u, inp, now)
            IN  /\ out.code = 200 <=>
                       (election.start_time <= now /\ now <= election.stop_time)
                /\ out.detail = "The election has ended" <=> now > election.stop_time
                /\ out.detail = "The election has not started" <=>
                       now < election.start_time

\* a vote has just been recorded at the stop_time of its election
C17_Witness ==
    /\ last.op = "vote"
    /\ last.code = 200
    /\ now = db.elections[last.arg.election_id].stop_time
    /\ Vote(last.by, last.arg.position_id, last.arg.candidate_id) \in db.votes

----------------------------------------------------------------------------
(* Properties of get_election_result *)

\* C18: get_election_result succeeds for the creator of the election only;
\* what it returns has one leaderboard entry per position of the election
\* (found by the position's name, unique in the election), the entry lists
\* exactly the candidates of that position, each once with its current
\* vote_count, in non-increasing order of vote_count; nothing is written.
C18_Leaderboard ==
    \A u \in Users, e \in ElectionIds(db) :
        LET out == get_election_result(db, u, e)
            positions == PositionsOf(db, {e})
            board == out.ret.leaderboard
        IN  /\ out.db = db
            /\ out.code = 200 <=>
                   (e \in DOMAIN db.elections /\ db.elections[e].creator_id = u)
            /\ out.code = 200 =>
                   /\ Len(board) = Cardinality(positions)
                   /\ \A p \in positions :
                          \E i \in DOMAIN board :
                              LET cs == board[i].candidates IN
                              /\ board[i].position_name = db.positions[p].position_name
                              /\ {cs[j].id : j \in DOMAIN cs} = CandidatesOf(db, {p})
                              /\ Len(cs) = Cardinality(CandidatesOf(db, {p}))
                              /\ \A j \in DOMAIN cs :
                                     cs[j].vote_count = db.candidates[cs[j].id].vote_count
                              /\ \A j, k \in DOMAIN cs :
                                     j < k => cs[j].vote_count >= cs[k].vote_count

\* a result was returned in which a candidate created later stands before an
\* earlier one of the same position, with more votes
C18_Witness ==
    /\ last.op = "get_election_result"
    /\ last.code = 200
    /\ Len(last.ret.leaderboard) = 2
    /\ \E i \in DOMAIN last.ret.leaderboard :
           LET cs == last.ret.leaderboard[i].candidates IN
           /\ Len(cs) = 2
           /\ cs[1].id > cs[2].id
           /\ cs[1].vote_count > cs[2].vote_count

----------------------------------------------------------------------------
(* Properties of update_election_details after the start *)

\* the requests of update_election_details for the election e
UpdateElectionInputs(e) ==
    [election_id : {e}, election_name : ElectionNames \cup {NoName, ""},
     start_time : Times \cup {NoTime}, stop_time : Times \cup {NoTime}]

\* the elections whose start_time has been reached
Started(d, time) == {e \in DOMAIN d.elections : d.elections[e].start_time <= time}

\* C19 as stated: once start_time <= now, every update_election_details call
\* that supplies a start_time is rejected with forbidden (403) and leaves
\* the election unchanged, and no successful update sets start_time to a
\* value earlier than now. (Elections with start_time < stop_time.)
C19_StartLockForbidden ==
    /\ \A e \in Started(db, now), u \in Users : \A inp \in UpdateElectionInputs(e) :
           (/\ inp.start_time # NoTime
            /\ db.elections[e].start_time < db.elections[e].stop_time) =>
               \A out \in update_election_outcomes(db, inp, u, now) :
                   out.code = 403 /\ out.db = db
    /\ \A e \in DOMAIN db.elections, u \in Users : \A inp \in UpdateElectionInputs(e) :
           \A out \in update_election_outcomes(db, inp, u, now) :
               (out.code = 200 /\ inp.start_time # NoTime) =>
                   out.db.elections[e].start_time >= now

\* C19: once start_time <= now, no update_election_details call changes the
\* election's start_time; every call that supplies a start_time is rejected
\* and leaves the database unchanged: with bad request (400) when it comes
\* from the creator and the supplied start_time is not before the stop_time
\* it would go with, with forbidden (403) otherwise; and a successful update
\* that supplies a start_time stores it and it is not earlier than now.
C19_StartLock ==
    /\ \A e \in Started(db, now), u \in Users : \A inp \in UpdateElectionInputs(e) :
           LET election == db.elections[e]
               new_stop == IF inp.stop_time # NoTime THEN inp.stop_time
                           ELSE election.stop_time
           IN  \A out \in update_election_outcomes(db, inp, u, now) :
                   /\ e \in DOMAIN out.db.elections
                   /\ out.db.elections[e].start_time = election.start_time
                   /\ inp.start_time # NoTime =>
                          /\ out.db = db
                          /\ out.code \in {400, 403}
                          /\ out.code = 400 <=>
                                 (u = election.creator_id /\ inp.start_time >= new_stop)
    /\ \A e \in DOMAIN db.elections, u \in Users : \A inp \in UpdateElectionInputs(e) :
           \A out \in update_election_outcomes(db, inp, u, now) :
               (out.code = 200 /\ inp.start_time # NoTime) =>
                   /\ out.db.elections[e].start_time = inp.start_time
                   /\ inp.start_time >= now

\* an update that supplied a start_time for a started election has just been
\* refused by the lock, and the election is as it was
C19_Witness ==
    /\ last.op = "update_election_details"
    /\ last.code = 403
    /\ last.detail = "Election has already started. You cannot change the start time."
    /\ Started(db, now) # {}

\* C20: after an election has started, an update_election_details call by
\* the creator that supplies only a stop_time later than now and later than
\* start_time, or only a new election_name, succeeds and stores the new
\* value; and no successful update changes stop_time to a value earlier
\* than now. (Elections with start_time < stop_time.)
C20_UpdateAfterStart ==
    /\ \A e \in Started(db, now) : \A inp \in UpdateElectionInputs(e) :
           LET election == db.elections[e]
               only_stop == /\ election.start_time < election.stop_time
                            /\ inp.stop_time # NoTime
                            /\ inp.stop_time > now
                            /\ inp.stop_time > election.start_time
                            /\ inp.start_time = NoTime
                            /\ inp.election_name = NoName
               only_name == /\ election.start_time < election.stop_time
                            /\ Supplied(inp.election_name)
                            /\ inp.election_name # election.election_name
                            /\ inp.start_time = NoTime
                            /\ inp.stop_time = NoTime
           IN  \A out \in update_election_outcomes(db, inp, election.creator_id, now) :
                   /\ only_stop =>
                          /\ out.code = 200
                          /\ out.db.elections[e].stop_time = inp.stop_time
                   /\ only_name =>
                          /\ out.code = 200
                          /\ out.db.elections[e].election_name = inp.election_name
    /\ \A e \in DOMAIN db.elections, u \in Users : \A inp \in UpdateElectionInputs(e) :
           \A out \in update_election_outcomes(db, inp, u, now) :
               (/\ out.code = 200
                /\ out.db.elections[e].stop_time # db.elections[e].stop_time) =>
                   out.db.elections[e].stop_time >= now

----------------------------------------------------------------------------
(* Properties of the stored rows *)

\* C21: every Vote row is consistent: its candidate exists and runs for the
\* Vote's position; the vote just recorded is for the position the caller
\* named, which belongs to the election the caller named; and a request
\* whose candidate belongs to another election, or to another position of
\* the same election, is rejected and writes nothing.
C21_VoteConsistent ==
    /\ \A v \in db.votes :
           /\ v.candidate_id \in DOMAIN db.candidates
           /\ v.position_id \in DOMAIN db.positions
           /\ db.candidates[v.candidate_id].position_id = v.position_id
    /\ (last.op = "vote" /\ last.code = 200) =>
           /\ Vote(last.by, last.arg.position_id, last.arg.candidate_id) \in db.votes
           /\ db.positions[last.arg.position_id].election_id = last.arg.election_id
    /\ \A u \in Users, inp \in VoteInputs(db) :
           LET out == vote(db, u, inp, now) IN
           (/\ inp.candidate_id \in DOMAIN db.candidates
            /\ \/ db.positions[db.candidates[inp.candidate_id].position_id].election_id
                      # inp.election_id
               \/ db.candidates[inp.candidate_id].position_id # inp.position_id) =>
               /\ out.code # 200
               /\ out.db = db

\* votes are stored, and a vote for a candidate of another position of the
\* same election has just been refused
C21_Witness ==
    /\ db.votes # {}
    /\ last.op = "vote"
    /\ last.code = 400
    /\ last.detail = "Candidate is not running for this position"

\* every row refers to rows that exist
Referential(d) ==
    /\ \A p \in DOMAIN d.positions : d.positions[p].election_id \in DOMAIN d.elections
    /\ \A c \in DOMAIN d.candidates : d.candidates[c].position_id \in DOMAIN d.positions
    /\ \A v \in d.votes : /\ v.position_id \in DOMAIN d.positions
                          /\ v.candidate_id \in DOMAIN d.candidates
    /\ \A a \in d.allowed : a.election_id \in DOMAIN d.elections

\* C22: referential integrity holds in every reachable state: every Position
\* refers to an existing Election, every Candidate to an existing Position,
\* every Vote to an existing Position and Candidate, every AllowedVoter to an
\* existing Election; after delete_election no position, candidate, vote or
\* whitelist row of the election remains, and after delete_position or
\* delete_candidate no candidate or vote under the deleted row remains.
C22_ReferentialIntegrity ==
    /\ Referential(db)
    /\ (last.op = "delete_election" /\ last.code = 200) =>
           LET e == last.arg.election_id IN
           /\ e \notin DOMAIN db.elections
           /\ PositionsOf(db, {e}) = {}
           /\ \A a \in db.allowed : a.election_id # e
    /\ (last.op = "delete_position" /\ last.code = 200) =>
           LET p == last.arg.position_id IN
           /\ p \notin DOMAIN db.positions
           /\ CandidatesOf(db, {p}) = {}
           /\ \A v \in db.votes : v.position_id # p
    /\ (last.op = "delete_candidate" /\ last.code = 200) =>
           LET c == last.arg.candidate_id IN
           /\ c \notin DOMAIN db.candidates
           /\ \A v \in db.votes : v.candidate_id # c
    /\ \A u \in Users, e \in ElectionIds(db) :
           LET out == delete_election(db, [election_id |-> e], u) IN
           /\ Referential(out.db)
           /\ out.code = 200 =>
                  /\ \A p \in DOMAIN db.positions :
                         db.positions[p].election_id = e => p \notin DOMAIN out.db.positions
                  /\ \A c \in CandidatesOf(db, PositionsOf(db, {e})) :
                         c \notin DOMAIN out.db.candidates
                  /\ \A v \in db.votes :
                         v.position_id \in PositionsOf(db, {e}) => v \notin out.db.votes
    /\ \A u \in Users, inp \in DeletePositionInputs(db) :
           LET out == delete_position(db, inp, u) IN
           /\ Referential(out.db)
           /\ out.code = 200 =>
                  /\ \A c \in CandidatesOf(db, {inp.position_id}) :
                         c \notin DOMAIN out.db.candidates
                  /\ \A v \in db.votes :
                         v.position_id = inp.position_id => v \notin out.db.votes
    /\ \A u \in Users, inp \in DeleteCandidateInputs(db) :
           LET out == delete_candidate(db, inp, u) IN
           /\ Referential(out.db)
           /\ out.code = 200 =>
                  \A v \in db.votes :
                      v.candidate_id = inp.candidate_id => v \notin out.db.votes

\* a candidate has just been deleted while the other candidate of the
\* position keeps the votes cast for them
C22_Witness ==
    /\ last.op = "delete_candidate"
    /\ last.code = 200
    /\ \E v \in db.votes :
           db.candidates[v.candidate_id].position_id
               \in {p \in DOMAIN db.positions : CandidatesOf(db, {p}) # {}}

\* no creator has two elections of one name, no election two positions of
\* one name
UniqueNames(d) ==
    /\ \A e, f \in DOMAIN d.elections :
           (/\ d.elections[e].creator_id = d.elections[f].creator_id
            /\ d.elections[e].election_name = d.elections[f].election_name) => e = f
    /\ \A p, q \in DOMAIN d.positions :
           (/\ d.positions[p].election_id = d.positions[q].election_id
            /\ d.positions[p].position_name = d.positions[q].position_name) => p = q

\* C23: names stay unique: no creator has two elections with the same
\* election_name and no election two positions with the same position_name;
\* a create_election, create_position, update_election_details or
\* update_position_details call by the creator that would make a duplicate
\* is answered with conflict (409) and leaves the database unchanged.
C23_UniqueNames ==
    /\ UniqueNames(db)
    /\ \A u \in Users, name \in ElectionNames, s \in Times, t \in Times :
           LET out == create_election(db, [election_name |-> name, start_time |-> s,
                                           stop_time |-> t], u)
           IN  /\ UniqueNames(out.db)
               /\ (s < t /\ NameTaken(db, u, name, NoId)) =>
                      (out.code = 409 /\ out.db = db)
    /\ \A inp \in PositionInputs(db) :
           inp.election_id \in DOMAIN db.elections =>
               LET out == create_position(db, db.elections[inp.election_id].creator_id, inp)
               IN  /\ UniqueNames(out.db)
                   /\ PositionTaken(db, inp.election_id, inp.position_name, NoId) =>
                          (out.code = 409 /\ out.db = db)
    /\ \A e \in DOMAIN db.elections : \A inp \in UpdateElectionInputs(e) :
           \A out \in update_election_outcomes(db, inp, db.elections[e].creator_id, now) :
               /\ UniqueNames(out.db)
               /\ (/\ inp.start_time = NoTime /\ inp.stop_time = NoTime
                   /\ Supplied(inp.election_name)
                   /\ NameTaken(db, db.elections[e].creator_id, inp.election_name, e)) =>
                      (out.code = 409 /\ out.db = db)
    /\ \A inp \in UpdatePositionInputs(db) :
           (/\ inp.position_id \in DOMAIN db.positions
            /\ db.positions[inp.position_id].election_id = inp.election_id) =>
               LET election == db.elections[inp.election_id]
                   out == update_position_details(db, inp, election.creator_id, now)
               IN  /\ UniqueNames(out.db)
                   /\ (/\ now < election.start_time
                       /\ Supplied(inp.position_name)
                       /\ PositionTaken(db, inp.election_id, inp.position_name,
                                        inp.position_id)) =>
                          (out.code = 409 /\ out.db = db)

\* C24: update_position_details with a position_id that matches no position
\* and update_candidate_details with a candidate_id that matches no
\* candidate, called by the creator of the election the request names, fail
\* with not found (404, "position not found" / "candidate not found") and
\* change nothing.
C24_NotFound ==
    /\ \A inp \in UpdatePositionInputs(db) :
           (/\ inp.election_id \in DOMAIN db.elections
            /\ inp.position_id \notin DOMAIN db.positions) =>
               LET out == update_position_details(db, inp,
                              db.elections[inp.election_id].creator_id, now)
               IN  /\ out.code = 404
                   /\ out.detail = "position not found"
                   /\ out.db = db
    /\ \A inp \in UpdateCandidateInputs(db) :
           (/\ inp.election_id \in DOMAIN db.elections
            /\ inp.candidate_id \notin DOMAIN db.candidates) =>
               LET out == update_candidate_details(db, inp,
                              db.elections[inp.election_id].creator_id, now)
               IN  /\ out.code = 404
                   /\ out.detail = "candidate not found"
                   /\ out.db = db

----------------------------------------------------------------------------
(* Properties of the periodic sweeps and of verify_otp *)

OtpRows(d) == d.signupOtp \cup d.forgotPasswordOtp

\* C25: while the clock runs and both sweeps keep being run, every OTP row
\* (SignupOtp or ForgotPasswordOtp) whose expiry time has passed is
\* eventually deleted, and every user that has stayed unverified for longer
\* than unregisted_user_limit is eventually deleted (or verified).
C25_SweepsCleanUp ==
    /\ \A i \in 1..MaxOtps :
           (\E r \in OtpRows(db) : r.otp_id = i /\ r.expires < now)
               ~> (\A r \in OtpRows(db) : r.otp_id # i)
    /\ \A u \in Users :
           (/\ u \in DOMAIN db.users
            /\ db.users[u].email_verified = FALSE
            /\ db.users[u].created_at + unregisted_user_limit < now)
               ~> (u \notin DOMAIN db.users \/ db.users[u].email_verified = TRUE)

\* C30: OTPs are single-use per verification: right after a verify_otp call
\* has succeeded for a user and OTP type, with no OTP issued since, no
\* verify_otp call for that user and type succeeds, whatever code it
\* carries and however many OTPs had been issued before.
C30_SingleUse ==
    (last.op = "verify_otp" /\ last.code = 200) =>
        \A otp \in OtpCodes :
            verify_otp(db, [user_id |-> last.arg.user_id, otp |-> otp,
                            otp_type |-> last.arg.otp_type], now).code # 200

----------------------------------------------------------------------------
(* Properties of get_election_details *)

\* C26: get_election_details called by any user for any election id changes
\* nothing; it answers 404 for an id with no election, 403 for a user who is
\* neither the election's creator nor on its whitelist, and otherwise returns
\* the election's data, in which allowed_voters is the list of the
\* whitelisted users' e-mail addresses when the caller is the creator and
\* None when the caller is not (a whitelisted non-creator).
C26_DetailsAccess ==
    \A u \in Users, e \in ElectionIds(db) :
        LET out == get_election_details(db, u, e) IN
        /\ out.db = db
        /\ IF e \notin DOMAIN db.elections THEN out.code = 404
           ELSE IF u # db.elections[e].creator_id /\ ~IsAllowed(db, u, e)
           THEN out.code = 403
           ELSE /\ out.code = 200
                /\ out.ret.id = e
                /\ out.ret.election_name = db.elections[e].election_name
                /\ {out.ret.positions[i].id : i \in DOMAIN out.ret.positions}
                       = PositionsOf(db, {e})
                /\ IF u = db.elections[e].creator_id
                   THEN out.ret.allowed_voters
                            = Some({EmailOf(v) : v \in {w \in Users : IsAllowed(db, w, e)}})
                   ELSE out.ret.allowed_voters = None

\* a whitelisted user who is not the creator has read an election that has
\* a whitelist, and was given no voter list
C26_Witness ==
    /\ last.op = "get_election_details"
    /\ last.code = 200
    /\ last.by # db.elections[last.arg].creator_id
    /\ IsAllowed(db, last.by, last.arg)
    /\ last.ret.allowed_voters = None

----------------------------------------------------------------------------
(* Properties of vote_count and of the whitelist of candidates *)

CountConsistent(d) ==
    \A c \in DOMAIN d.candidates :
        d.candidates[c].vote_count
            = Cardinality({v \in d.votes : v.candidate_id = c})

\* C27: in every state reached by votes and by deletions of candidates,
\* positions and elections, each candidate's vote_count is the number of
\* Vote rows with its candidate_id; and create_candidates,
\* update_candidate_details, add_allowed_voters and delete_allowed_voter,
\* called by any user with any input, lead to a state where this holds too.
C27_VoteCountMatchesRows ==
    /\ CountConsistent(db)
    /\ \A u \in Users :
           /\ \A inp \in CandidateInputs(db) :
                  CountConsistent(create_candidates(db, u, inp).db)
           /\ \A inp \in UpdateCandidateInputs(db) :
                  CountConsistent(update_candidate_details(db, inp, u, now).db)
           /\ \A inp \in DeleteVoterInputs(db) :
                  CountConsistent(delete_allowed_voter(db, u, inp).db)
           /\ \A e \in ElectionIds(db), v \in Users :
                  CountConsistent(add_allowed_voters(db, u,
                      [election_id |-> e, emails |-> <<EmailOf(v)>>]).db)

\* a vote has just been stored for a candidate who now has two votes
C27_Witness ==
    /\ last.op = "vote"
    /\ last.code = 200
    /\ last.arg.candidate_id \in DOMAIN db.candidates
    /\ db.candidates[last.arg.candidate_id].vote_count = 2
    /\ Cardinality({v \in db.votes : v.candidate_id = last.arg.candidate_id}) = 2

\* C28: of two vote requests in flight together (both past their checks,
\* neither committed) by two different users for the same candidate, neither
\* user having a Vote row for the position, both commits succeed, in either
\* order, both Vote rows are stored and the candidate's vote_count ends
\* exactly 2 above the stored value.
C28_NoLostIncrement ==
    \A s, t \in Pending :
        (/\ s # t
         /\ txs[s].candidate_id = txs[t].candidate_id
         /\ txs[s].user_id # txs[t].user_id
         /\ txs[s].candidate_id \in DOMAIN db.candidates
         /\ ~HasVoted(db, txs[s].user_id, txs[s].position_id)
         /\ ~HasVoted(db, txs[t].user_id, txs[t].position_id))
            => LET c      == txs[s].candidate_id
                   first  == vote_commit(db, txs[s])
                   second == vote_commit(first.db, txs[t])
               IN  /\ first.code = 200
                   /\ second.code = 200
                   /\ second.db.votes = db.votes \cup {txs[s], txs[t]}
                   /\ second.db.candidates[c].vote_count
                          = db.candidates[c].vote_count + 2

\* of two votes by different users for one candidate in flight together, the
\* one in the first slot has just committed and the other is still to
\* commit (the second slot is only filled while the first is taken)
C28_Witness ==
    /\ last.op = "vote"
    /\ last.code = 200
    /\ txs[1] = NoVote
    /\ txs[2] # NoVote
    /\ txs[2].candidate_id = last.arg.candidate_id
    /\ txs[2].user_id # last.arg.user_id
    /\ db.candidates[last.arg.candidate_id].vote_count = 1

============================================================================
